---- MODULE Spec2Model ----
(***************************************************************************)
(* State-machine model of the multiplayer core of DNDGame-Retro:           *)
(*   - ReconnectionManager  (reconnection_manager.py)                      *)
(*   - TurnManager          (turn_manager.py)                              *)
(*   - CombatManager        (rules/combat.py, rules/dice.py)               *)
(*   - ConditionManager     (rules/conditions.py)                          *)
(*   - PresenceManager      (presence_manager.py)                          *)
(*   - SyncManager          (sync_manager.py)                              *)
(*   - the dice functions   (rules/dice.py)                                *)
(* Each subsystem has its own variables and its own specification; the     *)
(* variables of the other subsystems stay unchanged under it.              *)
(***************************************************************************)
EXTENDS Integers, Sequences, FiniteSets, TLC

VARIABLES
    \* ---- ReconnectionManager ----
    now,        \* wall clock, in hours (datetime.now(UTC))
    tokens,     \* rows of the ReconnectionToken table
    issued,     \* number of raw secrets generated so far
    redeemed,   \* history: secrets for which handle_reconnection returned success
    lastCall,   \* the last ReconnectionManager call and what it returned
    \* ---- two concurrent handle_reconnection requests ----
    rpc,        \* per request: "idle", "validated" or "done"
    rsecret,    \* per request: the secret passed in
    rheld,      \* per request: the token_record validate_token returned
    rok,        \* per request: result["success"]
    \* ---- TurnManager ----
    turns,      \* rows of the Turn table, in insertion order (id = position)
    actions,    \* rows of the TurnAction table (the turn_id of each)
    phase,      \* history, per session: which calls the session has seen
    advances,   \* history, per session: successful advance_turn calls
    turnCall,   \* the TurnManager call of the last step and its outcome
    \* ---- CombatManager ----
    combats,    \* self._active_combats: session id -> CombatState (or None)
    combatCall, \* the next_turn call of the last step and its outcome
    history,    \* history, per session: next_turn calls since start_combat
    \* ---- ConditionManager ----
    charConds,  \* self._character_conditions: character id -> conditions (or None)
    condCall,   \* the ConditionManager call of the last step and what it returned
    applied,    \* history, per character and type: the last fresh application
    \* ---- PresenceManager ----
    clock,      \* wall clock, in seconds (datetime.now(UTC))
    presences,  \* rows of the PlayerPresence table, by connection (or None)
    presCall,   \* the PresenceManager call of the last step and what it returned
    notes,      \* history, per connection: what has happened to its row
    \* ---- SyncManager ----
    active_conflicts, \* self.active_conflicts: conflict id -> ConflictResolution
    syncCall,   \* the SyncManager call of the last step and what it returned
    \* ---- rules/dice.py ----
    diceCall    \* the dice function called in the last step and what it returned

tokenVars == <<now, tokens, issued, redeemed, lastCall>>
raceVars == <<rpc, rsecret, rheld, rok>>
turnVars == <<turns, actions, phase, advances, turnCall>>
combatVars == <<combats, combatCall, history>>
condVars == <<charConds, condCall, applied>>
presenceVars == <<clock, presences, presCall, notes>>
syncVars == <<active_conflicts, syncCall>>
diceVars == <<diceCall>>
vars == <<now, tokens, issued, redeemed, lastCall, rpc, rsecret, rheld, rok,
          turns, actions, phase, advances, turnCall, combats, combatCall, history,
          charConds, condCall, applied, clock, presences, presCall, notes,
          active_conflicts, syncCall, diceCall>>

(***************************************************************************)
(* ReconnectionManager                                                     *)
(***************************************************************************)

\* ids that callers pass as player_id / session_id
PlayerIds == {1, 2}
SessionIds == {1, 2}
\* rows present in the Player and Session tables (db.get returns None otherwise)
DbPlayers == {1}
DbSessions == {1, 2}

\* model bounds
MaxTokens == 2
MaxTicks == 2

\* self.token_expiry_hours
token_expiry_hours == 24

Secrets == 1..MaxTokens
Procs == {1, 2}

\* hashlib.sha256(raw.encode()).hexdigest(): a one-way, collision-free digest
Hash(raw) == <<"sha256", raw>>

\* secrets.token_urlsafe(32): a secret never generated before
FreshSecret(n) == n + 1

\* a field holding None or a datetime
None == <<>>
Some(t) == <<t>>

\* select(ReconnectionToken).where(player_id == p, session_id == s, is_valid == True)
ValidForPair(toks, p, s) ==
    {r \in toks : r.player_id = p /\ r.session_id = s /\ r.is_valid}

\* select(ReconnectionToken).where(token == token_hash, is_valid == True)
ValidByHash(toks, raw) ==
    {r \in toks : r.token = Hash(raw) /\ r.is_valid}

\* an UPDATE of one row
Replace(toks, old, new) == (toks \ {old}) \cup {new}

\* mutant: the old token keeps its validity flag
Invalidate_Keeps(r) == r

\* existing.is_valid = False / token.is_valid = False
Invalidate(r) == [r EXCEPT !.is_valid = FALSE]

\* mutant: the record is stamped but its validity flag is left set
MarkUsed_KeepsValid(r, t) == [r EXCEPT !.used_at = Some(t)]

\* token_record.used_at = now; token_record.is_valid = False
MarkUsed(r, t) == [r EXCEPT !.used_at = Some(t), !.is_valid = FALSE]

\* mutant: a token never expires
IsExpired_Never(r, t) == FALSE

\* datetime.now(UTC) > expires_at
IsExpired(r, t) == t > r.expires_at

\* ReconnectionToken(player_id, session_id, token, expires_at, is_valid=True)
NewToken(p, s, raw, t) ==
    [player_id |-> p, session_id |-> s, token |-> Hash(raw),
     expires_at |-> t + token_expiry_hours, used_at |-> None, is_valid |-> TRUE]

\* validate_token: the possible outcomes [rec, toks]; rec is {} for None and
\* {r} for the record returned, toks the table after the call. first() takes
\* one of the matching rows.
validate_token(toks, raw, t) ==
    LET m == ValidByHash(toks, raw) IN
    IF m = {} THEN {[rec |-> {}, toks |-> toks]}
    ELSE {IF IsExpired(r, t)
          THEN [rec |-> {}, toks |-> Replace(toks, r, Invalidate(r))]
          ELSE [rec |-> {r}, toks |-> toks] : r \in m}

\* db.get(Player, ...) and db.get(GameSession, ...) both find a row
PlayerAndSessionFound(r) == r.player_id \in DbPlayers /\ r.session_id \in DbSessions

\* what the step's call was and what it returned; calls that take no secret
\* are recorded as NoCall
Call(op, raw, ok) == [op |-> op, secret |-> raw, ok |-> ok]
NoCall == Call("none", 0, FALSE)

InitToken ==
    /\ now = 0
    /\ tokens = {}
    /\ issued = 0
    /\ redeemed = {}
    /\ lastCall = NoCall

InitRace ==
    /\ rpc = [p \in Procs |-> "idle"]
    /\ rsecret = [p \in Procs |-> 0]
    /\ rheld = [p \in Procs |-> {}]
    /\ rok = [p \in Procs |-> FALSE]

\* create_reconnection_token(player_id, session_id)
CreateToken(p, s) ==
    /\ issued < MaxTokens
    /\ LET raw == FreshSecret(issued)
           existing == ValidForPair(tokens, p, s)
       IN /\ \/ /\ existing = {}
                /\ tokens' = tokens \cup {NewToken(p, s, raw, now)}
             \/ \E e \in existing :
                    tokens' = Replace(tokens, e, Invalidate(e))
                                  \cup {NewToken(p, s, raw, now)}
          /\ issued' = raw
          /\ lastCall' = NoCall
    /\ UNCHANGED <<now, redeemed>>

\* validate_token(token) called directly
ValidateToken(raw) ==
    /\ \E out \in validate_token(tokens, raw, now) :
          /\ tokens' = out.toks
          /\ lastCall' = Call("validate", raw, out.rec # {})
    /\ UNCHANGED <<now, issued, redeemed>>

\* get_token_info(token): validate_token, then read-only lookups
GetTokenInfo(raw) ==
    /\ \E out \in validate_token(tokens, raw, now) :
          /\ tokens' = out.toks
          /\ lastCall' = Call("validate", raw, out.rec # {})
    /\ UNCHANGED <<now, issued, redeemed>>

\* handle_reconnection(token), run without interruption
HandleReconnection(raw) ==
    /\ \E out \in validate_token(tokens, raw, now) :
          IF out.rec = {}
          THEN /\ tokens' = out.toks
               /\ lastCall' = Call("handle", raw, FALSE)
               /\ redeemed' = redeemed
          ELSE \E r \in out.rec :
               /\ tokens' = Replace(out.toks, r, MarkUsed(r, now))
               /\ lastCall' = Call("handle", raw, PlayerAndSessionFound(r))
               /\ redeemed' = IF PlayerAndSessionFound(r)
                              THEN redeemed \cup {raw} ELSE redeemed
    /\ UNCHANGED <<now, issued>>

\* revoke_token(player_id, session_id)
RevokeToken(p, s) ==
    /\ LET hit == ValidForPair(tokens, p, s) IN
          /\ tokens' = (tokens \ hit) \cup {Invalidate(r) : r \in hit}
          /\ lastCall' = NoCall
    /\ UNCHANGED <<now, issued, redeemed>>

\* cleanup_expired_tokens(session_id); sid = 0 stands for None
CleanupExpiredTokens(sid) ==
    /\ LET expired == IF sid # 0
                      THEN {r \in tokens : r.session_id = sid /\ r.expires_at < now}
                      ELSE {r \in tokens : r.expires_at < now}
       IN /\ tokens' = tokens \ expired
          /\ lastCall' = NoCall
    /\ UNCHANGED <<now, issued, redeemed>>

\* time passes between calls, one token lifetime at a time
Tick ==
    /\ now < MaxTicks * token_expiry_hours
    /\ now' = now + token_expiry_hours
    /\ lastCall' = NoCall
    /\ UNCHANGED <<tokens, issued, redeemed>>

NextToken ==
    \/ \E p \in PlayerIds, s \in SessionIds : CreateToken(p, s) /\ UNCHANGED <<raceVars, turnVars, combatVars, condVars, presenceVars, syncVars, diceVars>>
    \/ \E raw \in Secrets : ValidateToken(raw) /\ UNCHANGED <<raceVars, turnVars, combatVars, condVars, presenceVars, syncVars, diceVars>>
    \/ \E raw \in Secrets : GetTokenInfo(raw) /\ UNCHANGED <<raceVars, turnVars, combatVars, condVars, presenceVars, syncVars, diceVars>>
    \/ \E raw \in Secrets : HandleReconnection(raw) /\ UNCHANGED <<raceVars, turnVars, combatVars, condVars, presenceVars, syncVars, diceVars>>
    \/ \E p \in PlayerIds, s \in SessionIds : RevokeToken(p, s) /\ UNCHANGED <<raceVars, turnVars, combatVars, condVars, presenceVars, syncVars, diceVars>>
    \/ \E sid \in SessionIds \cup {0} : CleanupExpiredTokens(sid) /\ UNCHANGED <<raceVars, turnVars, combatVars, condVars, presenceVars, syncVars, diceVars>>
    \/ Tick /\ UNCHANGED <<raceVars, turnVars, combatVars, condVars, presenceVars, syncVars, diceVars>>

(***************************************************************************)
(* Two handle_reconnection requests in flight at once. Each request runs   *)
(* validate_token (a SELECT, committed at once when it expires the row),   *)
(* and later marks the record it holds used and commits: the two database  *)
(* round trips of different requests interleave freely.                    *)
(***************************************************************************)

\* the row the held ORM object is mapped to (same primary key)
RowOf(toks, r) == {x \in toks : x.token = r.token}

\* handle_reconnection, lines 113-120: validate_token(token)
RaceValidate(p, raw) ==
    /\ rpc[p] = "idle"
    /\ \E out \in validate_token(tokens, raw, now) :
          /\ tokens' = out.toks
          /\ rsecret' = [rsecret EXCEPT ![p] = raw]
          /\ rheld' = [rheld EXCEPT ![p] = out.rec]
          /\ rok' = [rok EXCEPT ![p] = FALSE]
          /\ rpc' = [rpc EXCEPT ![p] = IF out.rec = {} THEN "done" ELSE "validated"]
    /\ UNCHANGED <<now, issued, redeemed, lastCall>>

\* handle_reconnection, lines 122-151: mark the held record used, commit, and
\* report success when the player and the session exist
RaceConsume(p) ==
    /\ rpc[p] = "validated"
    /\ \E r \in rheld[p] :
          /\ tokens' = (tokens \ RowOf(tokens, r))
                          \cup {MarkUsed(x, now) : x \in RowOf(tokens, r)}
          /\ rok' = [rok EXCEPT ![p] = PlayerAndSessionFound(r)]
    /\ rpc' = [rpc EXCEPT ![p] = "done"]
    /\ UNCHANGED <<now, issued, redeemed, lastCall, rsecret, rheld>>

\* the request's result has been delivered; the worker takes the next request
RaceReturn(p) ==
    /\ rpc[p] = "done"
    /\ rpc' = [rpc EXCEPT ![p] = "idle"]
    /\ rsecret' = [rsecret EXCEPT ![p] = 0]
    /\ rheld' = [rheld EXCEPT ![p] = {}]
    /\ rok' = [rok EXCEPT ![p] = FALSE]
    /\ UNCHANGED tokenVars

NextRace ==
    \/ \E p \in PlayerIds, s \in SessionIds : CreateToken(p, s) /\ UNCHANGED <<raceVars, turnVars, combatVars, condVars, presenceVars, syncVars, diceVars>>
    \/ Tick /\ UNCHANGED <<raceVars, turnVars, combatVars, condVars, presenceVars, syncVars, diceVars>>
    \/ \E p \in Procs, raw \in Secrets : RaceValidate(p, raw) /\ UNCHANGED <<turnVars, combatVars, condVars, presenceVars, syncVars, diceVars>>
    \/ \E p \in Procs : RaceConsume(p) /\ UNCHANGED <<turnVars, combatVars, condVars, presenceVars, syncVars, diceVars>>
    \/ \E p \in Procs : RaceReturn(p) /\ UNCHANGED <<turnVars, combatVars, condVars, presenceVars, syncVars, diceVars>>

(***************************************************************************)
(* TurnManager                                                             *)
(***************************************************************************)

\* model bounds
MaxQueueLen == 3
MaxTurnRows == 3
MaxAdvances == 3
MaxActions == 1

\* Turn.round_number of a new row
DefaultRound == 1

\* the sessions whose turn queue is exercised
TurnSessions == {1}

\* ids passed as player_character_ids; 3 has no row in the Character table
CharacterIds == 1..3
DbCharacters == {1, 2}

\* Character.initiative_bonus of the rows of the Character table
initiative_bonus(c) == CASE c = 1 -> -1 [] c = 2 -> 2 [] OTHER -> 0

\* combat_encounter_id arguments: 0 is None; 1 is an active CombatEncounter
\* with two CombatantState rows; 2 is not active
EncounterIds == {0, 1, 2}
ActiveEncounters == {1}
EncounterCombatants(enc) ==
    <<[character_id |-> 1, initiative |-> 7], [character_id |-> 2, initiative |-> 12]>>

\* the sequences over S of length at most n
RECURSIVE SeqsUpTo(_, _)
SeqsUpTo(S, n) ==
    IF n = 0 THEN {<<>>}
    ELSE LET shorter == SeqsUpTo(S, n - 1) IN
         shorter \cup {Append(q, x) : q \in {r \in shorter : Len(r) = n - 1}, x \in S}

\* player_character_ids arguments; the list is not read when an encounter is given
StartArguments(enc) ==
    IF enc # 0 THEN {<<>>} ELSE SeqsUpTo(CharacterIds, MaxQueueLen)

\* x placed behind every element whose initiative is not lower
RECURSIVE InsertByInitiative(_, _)
InsertByInitiative(x, sorted) ==
    IF sorted = <<>> THEN <<x>>
    ELSE IF Head(sorted).initiative >= x.initiative
         THEN <<Head(sorted)>> \o InsertByInitiative(x, Tail(sorted))
         ELSE <<x>> \o sorted

\* list.sort(key=initiative, reverse=True): stable, highest first
RECURSIVE SortByInitiative(_)
SortByInitiative(q) ==
    IF q = <<>> THEN <<>>
    ELSE InsertByInitiative(q[Len(q)], SortByInitiative(SubSeq(q, 1, Len(q) - 1)))

\* the characters found by db.get(Character, char_id), with their sort key
FoundCharacters(ids) ==
    LET found == SelectSeq(ids, LAMBDA c : c \in DbCharacters) IN
    [i \in 1..Len(found) |->
        [character_id |-> found[i], initiative |-> initiative_bonus(found[i])]]

\* mutant: every new turn starts WAITING
NewTurn_NoneActive(s, entry, order, enc) ==
    [session_id |-> s, character_id |-> entry.character_id, turn_order |-> order,
     initiative |-> entry.initiative, status |-> "waiting",
     round_number |-> DefaultRound, started_at |-> None, ended_at |-> None,
     combat_encounter_id |-> enc]

\* Turn(session_id, character_id, turn_order, initiative, status, ...)
NewTurn(s, entry, order, enc) ==
    [session_id |-> s, character_id |-> entry.character_id, turn_order |-> order,
     initiative |-> entry.initiative,
     status |-> IF order = 0 THEN "active" ELSE "waiting",
     round_number |-> DefaultRound, started_at |-> None, ended_at |-> None,
     combat_encounter_id |-> enc]

\* the rows start_turn_queue adds, from the entries in the order given
NewTurns(s, entries, enc) ==
    LET sorted == SortByInitiative(entries) IN
    [i \in 1..Len(sorted) |-> NewTurn(s, sorted[i], i - 1, enc)]

\* ids of the rows of a session / of its ACTIVE rows / of a character's rows
SessionTurns(tbl, s) == {i \in 1..Len(tbl) : tbl[i].session_id = s}
ActiveTurns(tbl, s) == {i \in SessionTurns(tbl, s) : tbl[i].status = "active"}
CharacterTurns(tbl, s, c) == {i \in SessionTurns(tbl, s) : tbl[i].character_id = c}

\* get_turn_queue: the rows of the session ordered by turn_order; rows with
\* equal turn_order come in an order the database chooses
RECURSIVE OrderedBy(_, _)
OrderedBy(tbl, ids) ==
    IF ids = {} THEN {<<>>}
    ELSE LET first == {i \in ids : \A j \in ids : tbl[i].turn_order <= tbl[j].turn_order}
         IN UNION {{<<i>> \o rest : rest \in OrderedBy(tbl, ids \ {i})} : i \in first}

\* mutant: the queue holds the rows of every session
get_turn_queue_AllSessions(tbl, s) == OrderedBy(tbl, 1..Len(tbl))

\* get_turn_queue(session_id): the orders the rows can come in
get_turn_queue(tbl, s) == OrderedBy(tbl, SessionTurns(tbl, s))

\* position of row id in the queue q
IndexOf(q, id) == CHOOSE i \in 1..Len(q) : q[i] = id

\* a datetime.now(UTC) stored in a row
Stamp == Some("now")

\* mutant: the wraparound does not increment the round
ResetForNewRound_SameRound(t) ==
    IF t.status = "completed"
    THEN [t EXCEPT !.status = "waiting", !.started_at = None, !.ended_at = None]
    ELSE t

\* advance_turn, lines 154-162: a COMPLETED turn is reset for the new round
ResetForNewRound(t) ==
    IF t.status = "completed"
    THEN [t EXCEPT !.status = "waiting", !.round_number = t.round_number + 1,
                   !.started_at = None, !.ended_at = None]
    ELSE t

\* advance_turn with the round incremented on the next turn only
AdvanceFrom_NextOnly(tbl, cur, q) ==
    LET completed == [tbl EXCEPT ![cur].status = "completed", ![cur].ended_at = Stamp]
        current_index == IndexOf(q, cur) - 1
        next_index == (current_index + 1) % Len(q)
        next_turn == q[next_index + 1]
        wrapped == IF next_index = 0
                   THEN [completed EXCEPT ![next_turn] = ResetForNewRound(@)]
                   ELSE completed
    IN [ok |-> TRUE, cur |-> cur, ret |-> next_turn,
        tbl |-> [wrapped EXCEPT ![next_turn].status = "active",
                                ![next_turn].started_at = Stamp]]

\* advance_turn, lines 133-170, from the ACTIVE row cur and the queue q (row
\* ids in order): the table afterwards and the id of the row returned
AdvanceFrom(tbl, cur, q) ==
    LET completed == [tbl EXCEPT ![cur].status = "completed", ![cur].ended_at = Stamp]
        current_index == IndexOf(q, cur) - 1
        next_index == (current_index + 1) % Len(q)
        next_turn == q[next_index + 1]
        inQueue == {q[i] : i \in 1..Len(q)}
        wrapped == IF next_index = 0
                   THEN [i \in 1..Len(tbl) |->
                            IF i \in inQueue THEN ResetForNewRound(completed[i])
                            ELSE completed[i]]
                   ELSE completed
    IN [ok |-> TRUE, cur |-> cur, ret |-> next_turn,
        tbl |-> [wrapped EXCEPT ![next_turn].status = "active",
                                ![next_turn].started_at = Stamp]]

\* mutant: with no ACTIVE row the first row of the queue is activated
advance_turn_ActivatesFirst(tbl, s) ==
    IF ActiveTurns(tbl, s) = {}
    THEN IF SessionTurns(tbl, s) = {}
         THEN {[ok |-> FALSE, cur |-> 0, ret |-> 0, tbl |-> tbl]}
         ELSE {[ok |-> TRUE, cur |-> 0, ret |-> q[1],
                tbl |-> [tbl EXCEPT ![q[1]].status = "active",
                                    ![q[1]].started_at = Stamp]]
                  : q \in get_turn_queue(tbl, s)}
    ELSE UNION {{AdvanceFrom(tbl, cur, q) : q \in get_turn_queue(tbl, s)}
                   : cur \in ActiveTurns(tbl, s)}

\* advance_turn(session_id): the possible outcomes; ok = FALSE is the
\* ValueError raised when get_current_turn finds no ACTIVE row. first() takes
\* one of the ACTIVE rows.
advance_turn(tbl, s) ==
    IF ActiveTurns(tbl, s) = {}
    THEN {[ok |-> FALSE, cur |-> 0, ret |-> 0, tbl |-> tbl]}
    ELSE UNION {{AdvanceFrom(tbl, cur, q) : q \in get_turn_queue(tbl, s)}
                   : cur \in ActiveTurns(tbl, s)}

\* the advance_turn or skip_turn call of this step and its outcome: found = the row the call looks up
\* first exists, ok = it returned (did not raise), cur = id of the row that was
\* current, ret = id of the Turn returned
TurnCall(op, s, found, ok, cur, ret) ==
    [op |-> op, session |-> s, found |-> found, ok |-> ok, cur |-> cur, ret |-> ret]
NoTurnCall == TurnCall("none", 0, FALSE, FALSE, 0, 0)

\* history of a session: "none" (no queue yet), "pure" (one start_turn_queue,
\* then successful advance_turn calls only), "mixed" (one start_turn_queue,
\* then advance_turn, set_player_ready, record_action, skip_turn), "other"
Demoted(ph) == IF ph = "pure" THEN "mixed" ELSE ph

InitTurn ==
    /\ turns = <<>>
    /\ actions = <<>>
    /\ phase = [s \in SessionIds |-> "none"]
    /\ advances = [s \in SessionIds |-> 0]
    /\ turnCall = NoTurnCall

\* start_turn_queue(session_id, player_character_ids, combat_encounter_id)
StartTurnQueue(s, ids, enc) ==
    IF enc # 0 /\ enc \notin ActiveEncounters
    THEN \* ValueError: encounter not found or inactive
         /\ turnCall' = NoTurnCall
         /\ UNCHANGED <<turns, actions, phase, advances>>
    ELSE LET entries == IF enc # 0 THEN EncounterCombatants(enc)
                        ELSE FoundCharacters(ids)
             new == NewTurns(s, entries, enc)
         IN /\ Len(turns) + Len(new) <= MaxTurnRows
            /\ turns' = turns \o new
            /\ phase' = [phase EXCEPT ![s] =
                            IF new = <<>> THEN @
                            ELSE IF @ = "none" THEN "pure" ELSE "other"]
            /\ turnCall' = NoTurnCall
            /\ UNCHANGED <<actions, advances>>

\* advance_turn(session_id)
AdvanceTurn(s) ==
    /\ advances[s] < MaxAdvances
    /\ \E out \in advance_turn(turns, s) :
          /\ turns' = out.tbl
          /\ turnCall' = TurnCall("advance", s, out.ok, out.ok, out.cur, out.ret)
          /\ advances' = [advances EXCEPT ![s] = IF out.ok THEN @ + 1 ELSE @]
    /\ UNCHANGED <<actions, phase>>

\* mutant: the status is set whatever it was
ReadyStatus_Always(status, ready) == IF ready THEN "ready" ELSE "waiting"

\* set_player_ready, lines 188-193: the status of the row found
ReadyStatus(status, ready) ==
    IF ready
    THEN IF status = "waiting" THEN "ready" ELSE status
    ELSE IF status = "ready" THEN "waiting" ELSE status

\* set_player_ready(session_id, character_id, ready): the Turn table after
\* the call, for each row that first() can return (the table as it was when
\* the character has no row in the session)
set_player_ready(tbl, s, c, ready) ==
    IF CharacterTurns(tbl, s, c) = {}
    THEN {tbl}
    ELSE {[tbl EXCEPT ![i].status = ReadyStatus(tbl[i].status, ready)]
            : i \in CharacterTurns(tbl, s, c)}

\* check_all_ready(session_id): the counts returned
check_all_ready(tbl, s) ==
    LET ready_count == Cardinality({i \in SessionTurns(tbl, s) :
                                       tbl[i].status \in {"ready", "active"}})
        total_count == Cardinality(SessionTurns(tbl, s))
    IN [all_ready |-> ready_count = total_count,
        ready_count |-> ready_count, total_count |-> total_count]

\* set_player_ready(session_id, character_id, ready)
SetPlayerReady(s, c, ready) ==
    /\ turns' \in set_player_ready(turns, s, c, ready)
    /\ phase' = [phase EXCEPT ![s] = Demoted(@)]
    /\ turnCall' = NoTurnCall
    /\ UNCHANGED <<actions, advances>>

\* record_action(session_id, character_id, ...)
RecordAction(s, c) ==
    LET mine == CharacterTurns(turns, s, c) \cap ActiveTurns(turns, s) IN
    /\ \/ /\ mine = {}
          /\ actions' = actions
       \/ /\ Len(actions) < MaxActions
          /\ \E i \in mine : actions' = Append(actions, i)
    /\ phase' = [phase EXCEPT ![s] = Demoted(@)]
    /\ turnCall' = NoTurnCall
    /\ UNCHANGED <<turns, advances>>

\* skip_turn(session_id, character_id)
SkipTurn(s, c) ==
    LET mine == CharacterTurns(turns, s, c) \cap ActiveTurns(turns, s) IN
    /\ advances[s] < MaxAdvances
    /\ \/ /\ mine = {}
          /\ turnCall' = TurnCall("skip", s, FALSE, FALSE, 0, 0)
          /\ UNCHANGED <<turns, advances>>
       \/ \E i \in mine :
             LET skipped == [turns EXCEPT ![i].status = "skipped",
                                          ![i].ended_at = Stamp]
             IN \E out \in advance_turn(skipped, s) :
                   /\ turns' = out.tbl
                   /\ turnCall' = TurnCall("skip", s, TRUE, out.ok, i, out.ret)
                   /\ advances' = [advances EXCEPT ![s] = IF out.ok THEN @ + 1 ELSE @]
    /\ phase' = [phase EXCEPT ![s] = Demoted(@)]
    /\ UNCHANGED actions

\* end_turn_queue(session_id)
EndTurnQueue(s) ==
    /\ turns' = [i \in 1..Len(turns) |->
                    IF i \in SessionTurns(turns, s) /\ turns[i].status # "completed"
                    THEN [turns[i] EXCEPT !.status = "completed", !.ended_at = Stamp]
                    ELSE turns[i]]
    /\ phase' = [phase EXCEPT ![s] = IF @ = "none" THEN @ ELSE "other"]
    /\ turnCall' = NoTurnCall
    /\ UNCHANGED <<actions, advances>>

\* a session's queue is started once, on a session that has no turns yet
NextTurnQueue ==
    \/ \E s \in TurnSessions, enc \in EncounterIds : \E ids \in StartArguments(enc) :
          /\ SessionTurns(turns, s) = {}
          /\ StartTurnQueue(s, ids, enc)
          /\ UNCHANGED <<tokenVars, raceVars, combatVars, condVars, presenceVars, syncVars, diceVars>>
    \/ \E s \in TurnSessions : AdvanceTurn(s) /\ UNCHANGED <<tokenVars, raceVars, combatVars, condVars, presenceVars, syncVars, diceVars>>
    \/ \E s \in TurnSessions, c \in CharacterIds, ready \in BOOLEAN :
          SetPlayerReady(s, c, ready) /\ UNCHANGED <<tokenVars, raceVars, combatVars, condVars, presenceVars, syncVars, diceVars>>
    \/ \E s \in TurnSessions, c \in CharacterIds :
          RecordAction(s, c) /\ UNCHANGED <<tokenVars, raceVars, combatVars, condVars, presenceVars, syncVars, diceVars>>
    \/ \E s \in TurnSessions, c \in CharacterIds :
          SkipTurn(s, c) /\ UNCHANGED <<tokenVars, raceVars, combatVars, condVars, presenceVars, syncVars, diceVars>>
    \/ \E s \in TurnSessions : EndTurnQueue(s) /\ UNCHANGED <<tokenVars, raceVars, combatVars, condVars, presenceVars, syncVars, diceVars>>

\* start_turn_queue is also called on sessions that already have turns
NextTurnRestart ==
    \/ \E s \in TurnSessions, enc \in EncounterIds : \E ids \in StartArguments(enc) :
          StartTurnQueue(s, ids, enc) /\ UNCHANGED <<tokenVars, raceVars, combatVars, condVars, presenceVars, syncVars, diceVars>>
    \/ \E s \in TurnSessions : AdvanceTurn(s) /\ UNCHANGED <<tokenVars, raceVars, combatVars, condVars, presenceVars, syncVars, diceVars>>
    \/ \E s \in TurnSessions, c \in CharacterIds, ready \in BOOLEAN :
          SetPlayerReady(s, c, ready) /\ UNCHANGED <<tokenVars, raceVars, combatVars, condVars, presenceVars, syncVars, diceVars>>
    \/ \E s \in TurnSessions, c \in CharacterIds :
          RecordAction(s, c) /\ UNCHANGED <<tokenVars, raceVars, combatVars, condVars, presenceVars, syncVars, diceVars>>
    \/ \E s \in TurnSessions, c \in CharacterIds :
          SkipTurn(s, c) /\ UNCHANGED <<tokenVars, raceVars, combatVars, condVars, presenceVars, syncVars, diceVars>>
    \/ \E s \in TurnSessions : EndTurnQueue(s) /\ UNCHANGED <<tokenVars, raceVars, combatVars, condVars, presenceVars, syncVars, diceVars>>

(***************************************************************************)
(* CombatManager (rules/combat.py) with the dice it rolls (rules/dice.py)  *)
(***************************************************************************)

\* model bounds
MaxRound == 2
MaxCombatants == 3

\* CombatState.round_number of a new encounter
StartRound == 1

\* the sessions whose encounter is exercised
CombatSessions == {1}

\* ids passed as character ids; 4 is not a combatant of any encounter
CombatantIds == 1..4

\* rows of the Character table that start_combat reads
CharacterRows == {1, 2, 3}
dexterity(c) == CASE c = 1 -> 14 [] c = 2 -> 10 [] OTHER -> 7
char_max_hp(c) == CASE c = 1 -> 2 [] c = 2 -> 2 [] OTHER -> 1
char_current_hp(c) == CASE c = 1 -> 2 [] c = 2 -> 1 [] OTHER -> 0
char_armor_class(c) == CASE c = 1 -> 18 [] c = 2 -> 12 [] OTHER -> 10

\* damage and healing amounts passed to apply_damage / apply_healing
Amounts == {-1, 1, 5}

\* faces of the d20 that the initiative roll is drawn from
InitiativeFaces == {1, 20}

\* roll_die(sides) with the result of randbelow returned as it is
Faces_FromZero(sides) == 0..sides

\* roll_die(sides): the faces of a die
Faces(sides) == 1..sides

\* AdvantageType
Advantages == {"disadvantage", "normal", "advantage"}
AttackBonuses == {5}

\* the advantage type passed to CombatManager.resolve_attack (the attack roll
\* has the same outcomes under "normal")
AttackAdvantages == {"advantage"}

\* the id passed as attacker; it is not a combatant of every encounter
AttackerIds == {1}

Max(a, b) == IF a >= b THEN a ELSE b
Min(a, b) == IF a <= b THEN a ELSE b

\* roll_dice("1d20", advantage) with first roll r1 and second roll r2 (rolled
\* only with advantage or disadvantage): the kept roll
KeptRoll(r1, r2, adv) ==
    CASE adv = "advantage" -> Max(r1, r2)
      [] adv = "disadvantage" -> Min(r1, r2)
      [] OTHER -> r1

\* dice.resolve_attack(attack_bonus, target_ac, advantage) for given rolls
AttackCheck(r1, r2, bonus, ac, adv) ==
    LET kept == KeptRoll(r1, r2, adv)
        is_critical == kept = 20
        is_critical_fail == kept = 1
        total == kept + bonus
    IN [success |-> IF is_critical_fail THEN FALSE
                    ELSE IF is_critical THEN TRUE ELSE total >= ac,
        is_critical |-> is_critical,
        is_critical_fail |-> is_critical_fail]

\* every outcome the attack roll can have
AttackChecks(bonus, ac, adv) ==
    {AttackCheck(r1, r2, bonus, ac, adv) : r1 \in Faces(20), r2 \in Faces(20)}

\* damage formulas passed to resolve_attack, as the regular expression of
\* parse_dice_formula splits them: "1d2", "1d2-3" and "0d6"
DamageFormulas ==
    {[count |-> 1, sides |-> 2, modifier |-> 0],
     [count |-> 1, sides |-> 2, modifier |-> -3],
     [count |-> 0, sides |-> 6, modifier |-> 0]}

\* parse_dice_formula: the range validation (ValueError otherwise)
FormulaValid(f) ==
    /\ ~(f.count < 1 \/ f.count > 100)
    /\ ~(f.sides < 2 \/ f.sides > 1000)

\* the sums that count dice of the given size can show
RECURSIVE DiceSums(_, _)
DiceSums(count, sides) ==
    IF count = 0 THEN {0}
    ELSE {t + r : t \in DiceSums(count - 1, sides), r \in Faces(sides)}

\* roll_damage(formula, critical).total: dice doubled on a critical hit
DamageTotals(f, critical) ==
    LET count == IF critical THEN f.count * 2 ELSE f.count IN
    {t + f.modifier : t \in DiceSums(count, f.sides)}

\* Combatant(...) built by start_combat from a Character row and its roll
NewCombatant(c, roll) ==
    [character_id |-> c,
     initiative |-> roll + ((dexterity(c) - 10) \div 2),
     current_hp |-> char_current_hp(c), max_hp |-> char_max_hp(c),
     armor_class |-> char_armor_class(c),
     has_acted |-> FALSE, has_bonus_action |-> TRUE, has_reaction |-> TRUE]

\* Combatant.is_alive
is_alive(cb) == cb.current_hp > 0

\* the combatants alive
AliveCombatants(c) == {i \in 1..Len(c.combatants) : is_alive(c.combatants[i])}

\* CombatState.is_combat_over
is_combat_over(c) == Cardinality(AliveCombatants(c)) <= 1

\* CombatState.current_combatant is not None
HasCurrent(c) == 0 <= c.current_turn_index /\ c.current_turn_index < Len(c.combatants)

\* CombatState.current_combatant
current_combatant(c) == c.combatants[c.current_turn_index + 1]

\* combat.combat_log.append(entry); the model keeps the entries appended by
\* the call in progress, not the older ones
Log(c, entry) == [c EXCEPT !.combat_log = Append(@, entry)]
NewCall(c) == [c EXCEPT !.combat_log = <<>>]

\* mutant: the index wraps around without starting a new round
StepIndex_SameRound(c) ==
    LET moved == [c EXCEPT !.current_turn_index = @ + 1] IN
    IF moved.current_turn_index >= Len(moved.combatants)
    THEN [moved EXCEPT !.current_turn_index = 0]
    ELSE moved

\* next_turn, lines 174-180 and 184-188: move to the next combatant and
\* start a new round when all have been gone through
StepIndex(c) ==
    LET moved == [c EXCEPT !.current_turn_index = @ + 1] IN
    IF moved.current_turn_index >= Len(moved.combatants)
    THEN Log([moved EXCEPT !.current_turn_index = 0,
                           !.round_number = @ + 1], "round")
    ELSE moved

\* mutant: defeated combatants are not skipped
SkipDefeated_NoSkip(c, steps) == [exits |-> TRUE, state |-> c]

\* next_turn, lines 183-188: the while loop that skips defeated combatants,
\* after steps iterations. Once the loop has run Len(combatants) times
\* without leaving, it has looked at every combatant, found none alive, and is
\* back at the combatant it started from: it never leaves.
RECURSIVE SkipDefeated(_, _)
SkipDefeated(c, steps) ==
    IF HasCurrent(c) /\ ~is_alive(current_combatant(c))
    THEN IF steps >= Len(c.combatants)
         THEN [exits |-> FALSE, state |-> c]
         ELSE SkipDefeated(StepIndex(c), steps + 1)
    ELSE [exits |-> TRUE, state |-> c]

\* next_turn, lines 166-171: reset the current combatant's actions
ResetActions(c) ==
    IF HasCurrent(c)
    THEN [c EXCEPT !.combatants[c.current_turn_index + 1] =
              [@ EXCEPT !.has_acted = FALSE, !.has_bonus_action = TRUE,
                        !.has_reaction = TRUE]]
    ELSE c

\* next_turn, lines 190-196: the entry logged when combat is over
EndEntry(c) ==
    IF AliveCombatants(c) # {} THEN "ended_victorious" ELSE "ended_all_defeated"

\* the position of the combatant with the given character id (next(...), the
\* first match), as a set: empty when there is none
FindCombatant(c, id) ==
    LET hits == {i \in 1..Len(c.combatants) : c.combatants[i].character_id = id} IN
    IF hits = {} THEN {} ELSE {CHOOSE i \in hits : \A j \in hits : i <= j}

\* the next_turn call of this step: had = an encounter was active, aliveBefore
\* = combatants alive when it was called, returned = the call came back,
\* active = the encounter is still active afterwards, ret = what it returned
CombatCall(op, s, had, aliveBefore, returned, ret) ==
    [op |-> op, session |-> s, had |-> had, aliveBefore |-> aliveBefore,
     returned |-> returned, ret |-> ret]
NoCombatCall == CombatCall("none", 0, FALSE, 0, TRUE, None)

\* a next_turn call is still spinning in its loop: the manager serves no
\* other call
Hung == combatCall.op = "next_turn" /\ ~combatCall.returned

\* history of a session since its last start_combat: size = combatants it
\* started with, allAlive = all were alive then, calls = next_turn calls since
\* (counted up to size + 1), clean = no damage was applied and the encounter
\* was not ended by end_combat since
NoHistory == [size |-> 0, allAlive |-> FALSE, calls |-> 0, clean |-> FALSE]
CountCall(h) == [h EXCEPT !.calls = Min(@ + 1, h.size + 1)]
Tainted(h) == [h EXCEPT !.clean = FALSE]

InitCombat ==
    /\ combats = [s \in SessionIds |-> None]
    /\ combatCall = NoCombatCall
    /\ history = [s \in SessionIds |-> NoHistory]

\* the outcomes of the attack roll, for every bonus, armor class and advantage
AttackTable ==
    [bonus \in AttackBonuses, c \in CharacterRows, adv \in Advantages |->
        AttackChecks(bonus, char_armor_class(c), adv)]

\* the characters found by the query of start_combat, in table order
RECURSIVE RowsInOrder(_, _)
RowsInOrder(ids, from) ==
    IF from \notin CombatantIds THEN <<>>
    ELSE IF from \in ids /\ from \in CharacterRows
         THEN <<from>> \o RowsInOrder(ids, from + 1)
         ELSE RowsInOrder(ids, from + 1)

\* combatants.sort(key=initiative, reverse=True): stable, highest first
RECURSIVE SortCombatants(_)
InsertCombatant(sorted, cb) ==
    LET before == {i \in 1..Len(sorted) : sorted[i].initiative >= cb.initiative}
        k == Cardinality(before)
    IN SubSeq(sorted, 1, k) \o <<cb>> \o SubSeq(sorted, k + 1, Len(sorted))
SortCombatants(list) ==
    IF list = <<>> THEN <<>>
    ELSE InsertCombatant(SortCombatants(SubSeq(list, 1, Len(list) - 1)),
                         list[Len(list)])

\* CombatManager.start_combat(db, session_id, character_ids)
StartCombat(s, ids, rolls) ==
    LET rows == RowsInOrder(ids, 1)
        combatants == SortCombatants(
            [i \in 1..Len(rows) |-> NewCombatant(rows[i], rolls[rows[i]])])
        state == [session_id |-> s, round_number |-> StartRound,
                  combatants |-> combatants, current_turn_index |-> 0,
                  combat_log |-> <<"started">>]
    IN /\ ~Hung
       /\ combats' = [combats EXCEPT ![s] = Some(state)]
       /\ combatCall' = NoCombatCall
       /\ history' = [history EXCEPT ![s] =
              [size |-> Len(combatants),
               allAlive |-> \A i \in 1..Len(combatants) : is_alive(combatants[i]),
               calls |-> 0, clean |-> TRUE]]

\* CombatManager.next_turn(session_id)
NextTurn(s) ==
    /\ ~Hung
    /\ history' = [history EXCEPT ![s] = CountCall(@)]
    /\ IF combats[s] = None
       THEN /\ combatCall' = CombatCall("next_turn", s, FALSE, 0, TRUE, None)
            /\ UNCHANGED combats
       ELSE LET combat == NewCall(combats[s][1])
                alive == Cardinality(AliveCombatants(combat))
                moved == StepIndex(ResetActions(combat))
                loop == SkipDefeated(moved, 0)
                ended == Log(loop.state, EndEntry(loop.state))
            IN /\ combat.round_number < MaxRound
               /\ IF ~loop.exits
                  THEN /\ combats' = [combats EXCEPT ![s] = Some(loop.state)]
                       /\ combatCall' =
                              CombatCall("next_turn", s, TRUE, alive, FALSE, None)
                  ELSE IF is_combat_over(loop.state)
                  THEN /\ combats' = [combats EXCEPT ![s] = None]
                       /\ combatCall' =
                              CombatCall("next_turn", s, TRUE, alive, TRUE, Some(ended))
                  ELSE /\ combats' = [combats EXCEPT ![s] = Some(loop.state)]
                       /\ combatCall' =
                              CombatCall("next_turn", s, TRUE, alive, TRUE,
                                         Some(loop.state))

\* bound of the exploration: apply_damage and apply_healing are called on
\* combatants whose hit points are within 0..max_hp
WithinRange(cb) == 0 <= cb.current_hp /\ cb.current_hp <= cb.max_hp

\* target.current_hp = ...; then the defeated entry if the target is down
SetHp(c, i, hp, entry) ==
    LET hurt == Log([c EXCEPT !.combatants[i].current_hp = hp], entry) IN
    IF ~is_alive(hurt.combatants[i]) THEN Log(hurt, "defeated") ELSE hurt

\* CombatManager.resolve_attack(session_id, attacker_id, target_id,
\*                              attack_bonus, damage_formula, advantage)
ResolveAttack(s, attacker_id, target_id, bonus, f, adv) ==
    /\ ~Hung
    /\ combatCall' = NoCombatCall
    /\ IF combats[s] = None
       THEN UNCHANGED <<combats, history>>
       ELSE LET combat == NewCall(combats[s][1])
                attacker == FindCombatant(combat, attacker_id)
                target == FindCombatant(combat, target_id)
            IN IF attacker = {} \/ target = {}
               THEN /\ combats' = [combats EXCEPT ![s] = Some(combat)]
                    /\ UNCHANGED history
               ELSE \E i \in target :
                    \E chk \in AttackTable[bonus, combat.combatants[i].character_id, adv] :
                      IF chk.success
                      THEN IF ~FormulaValid(f)
                           THEN \* roll_damage raises ValueError
                                /\ combats' = [combats EXCEPT ![s] = Some(combat)]
                                /\ UNCHANGED history
                           ELSE \E total \in DamageTotals(f, chk.is_critical) :
                                LET damage == Max(0, total)
                                    hp == Max(0, combat.combatants[i].current_hp - damage)
                                IN /\ combats' = [combats EXCEPT ![s] =
                                         Some(SetHp(combat, i, hp,
                                              IF chk.is_critical THEN "critical_hit"
                                                                 ELSE "hit"))]
                                   /\ history' = [history EXCEPT ![s] = Tainted(@)]
                      ELSE /\ combats' = [combats EXCEPT ![s] =
                                 Some(Log(combat, IF chk.is_critical_fail
                                                  THEN "critical_miss" ELSE "miss"))]
                           /\ UNCHANGED history

\* apply_damage, line 300: the hit points after the damage
DamagedHp(cb, damage) == Max(0, cb.current_hp - damage)

\* apply_healing, line 339: the hit points after the healing
HealedHp(cb, healing) == Min(cb.max_hp, cb.current_hp + healing)

\* CombatManager.apply_damage(session_id, character_id, damage)
ApplyDamage(s, character_id, damage) ==
    /\ ~Hung
    /\ combatCall' = NoCombatCall
    /\ IF combats[s] = None
       THEN UNCHANGED <<combats, history>>
       ELSE LET combat == NewCall(combats[s][1])
                character == FindCombatant(combat, character_id)
            IN IF character = {}
               THEN /\ combats' = [combats EXCEPT ![s] = Some(combat)]
                    /\ UNCHANGED history
               ELSE \E i \in character :
                    LET hp == DamagedHp(combat.combatants[i], damage) IN
                    /\ WithinRange(combat.combatants[i])
                    /\ combats' = [combats EXCEPT ![s] =
                                      Some(SetHp(combat, i, hp, "damage"))]
                    /\ history' = [history EXCEPT ![s] = Tainted(@)]

\* CombatManager.apply_healing(session_id, character_id, healing)
ApplyHealing(s, character_id, healing) ==
    /\ ~Hung
    /\ combatCall' = NoCombatCall
    /\ IF combats[s] = None
       THEN UNCHANGED <<combats, history>>
       ELSE LET combat == NewCall(combats[s][1])
                character == FindCombatant(combat, character_id)
            IN IF character = {}
               THEN /\ combats' = [combats EXCEPT ![s] = Some(combat)]
                    /\ UNCHANGED history
               ELSE \E i \in character :
                    LET hp == HealedHp(combat.combatants[i], healing) IN
                    /\ WithinRange(combat.combatants[i])
                    /\ combats' = [combats EXCEPT ![s] =
                           Some(Log([combat EXCEPT !.combatants[i].current_hp = hp],
                                    "heal"))]
                    /\ history' = [history EXCEPT ![s] =
                           IF hp < combat.combatants[i].current_hp
                           THEN Tainted(@) ELSE @]

\* mutant: the encounter stays in the dict
end_combat_Keeps(cs, s) == [ret |-> cs[s] # None, combats |-> cs]

\* end_combat(session_id), lines 364-369: what it returns and the dict
\* afterwards (the log entry goes to the encounter that is discarded)
end_combat(cs, s) ==
    IF cs[s] # None
    THEN [ret |-> TRUE, combats |-> [cs EXCEPT ![s] = None]]
    ELSE [ret |-> FALSE, combats |-> cs]

\* CombatManager.end_combat(session_id); the call record keeps what it
\* returned in the field had
EndCombat(s) ==
    /\ ~Hung
    /\ combatCall' = CombatCall("end_combat", s, end_combat(combats, s).ret,
                                0, TRUE, None)
    /\ combats' = end_combat(combats, s).combats
    /\ history' = [history EXCEPT ![s] = Tainted(@)]

NextCombat ==
    \/ \E s \in CombatSessions, ids \in SUBSET CombatantIds :
         \E rolls \in [ids \cap CharacterRows -> InitiativeFaces] :
           /\ combats[s] = None
           /\ Cardinality(ids) <= MaxCombatants
           /\ StartCombat(s, ids, rolls)
           /\ UNCHANGED <<tokenVars, raceVars, turnVars, condVars, presenceVars, syncVars, diceVars>>
    \/ \E s \in CombatSessions :
         NextTurn(s) /\ UNCHANGED <<tokenVars, raceVars, turnVars, condVars, presenceVars, syncVars, diceVars>>
    \/ \E s \in CombatSessions, a \in AttackerIds, t \in CharacterRows,
          bonus \in AttackBonuses, f \in DamageFormulas, adv \in AttackAdvantages :
         ResolveAttack(s, a, t, bonus, f, adv)
           /\ UNCHANGED <<tokenVars, raceVars, turnVars, condVars, presenceVars, syncVars, diceVars>>
    \/ \E s \in CombatSessions, c \in CharacterRows, damage \in Amounts :
         ApplyDamage(s, c, damage) /\ UNCHANGED <<tokenVars, raceVars, turnVars, condVars, presenceVars, syncVars, diceVars>>
    \/ \E s \in CombatSessions, c \in CharacterRows, healing \in Amounts :
         ApplyHealing(s, c, healing) /\ UNCHANGED <<tokenVars, raceVars, turnVars, condVars, presenceVars, syncVars, diceVars>>
    \/ \E s \in CombatSessions :
         EndCombat(s) /\ UNCHANGED <<tokenVars, raceVars, turnVars, condVars, presenceVars, syncVars, diceVars>>

(***************************************************************************)
(* ConditionManager (rules/conditions.py)                                  *)
(***************************************************************************)

\* model bounds
MaxConditions == 2
MaxDuration == 2

\* ConditionType
ConditionTypes ==
    {"blinded", "charmed", "deafened", "frightened", "grappled",
     "incapacitated", "invisible", "paralyzed", "petrified", "poisoned",
     "prone", "restrained", "stunned", "unconscious", "exhaustion"}

\* DurationType
DurationTypes ==
    {"instant", "rounds", "minutes", "hours", "until_save", "until_dispelled",
     "permanent"}

\* the characters conditions are applied to
CondCharacters == {1}

\* the condition types and durations the duration claims are explored with
TimedTypes == {"poisoned", "stunned"}
TimedDurations == {"instant", "rounds", "permanent"}
DurationValues == 0..MaxDuration

\* Condition(...) as apply_condition builds it
NewCondition(ct, dt, value) ==
    [condition_type |-> ct, duration_type |-> dt, duration_value |-> value,
     rounds_remaining |-> IF dt = "rounds" THEN Some(value) ELSE None]

\* Condition.is_expired
is_expired(c) ==
    IF c.duration_type = "instant" THEN TRUE
    ELSE IF c.duration_type = "rounds" /\ c.rounds_remaining # None
         THEN c.rounds_remaining[1] <= 0
    ELSE FALSE

\* the positions of the conditions of a list that satisfy a test
ActivePositions(list) == {i \in 1..Len(list) : ~is_expired(list[i])}

\* CharacterConditions.get_condition finding no condition
get_condition_None(list, ct) == {}

\* CharacterConditions.get_condition: the position of the first condition of
\* the type that has not expired, as a set (empty when there is none)
get_condition(list, ct) ==
    LET hits == {i \in ActivePositions(list) : list[i].condition_type = ct} IN
    IF hits = {} THEN {} ELSE {CHOOSE i \in hits : \A j \in hits : i <= j}

\* CharacterConditions.has_condition
has_condition(list, ct) ==
    \E i \in 1..Len(list) : list[i].condition_type = ct /\ ~is_expired(list[i])

\* the sub-sequence of the elements at the positions kept, in order
RECURSIVE Keep(_, _)
Keep(list, kept) ==
    IF list = <<>> THEN <<>>
    ELSE Keep(SubSeq(list, 1, Len(list) - 1), kept) \o
         (IF Len(list) \in kept THEN <<list[Len(list)]>> ELSE <<>>)

\* CharacterConditions.active_conditions
active_conditions(list) == Keep(list, ActivePositions(list))

\* the conditions of a character: the empty list when it has no entry
ConditionsOf(cc, ch) == IF cc[ch] = None THEN <<>> ELSE cc[ch][1]

\* CharacterConditions.is_incapacitated
is_incapacitated(list) ==
    LET incapacitating == {"incapacitated", "paralyzed", "petrified", "stunned",
                           "unconscious"}
        active == active_conditions(list)
    IN \E i \in 1..Len(active) : active[i].condition_type \in incapacitating

\* CharacterConditions.can_move
can_move(list) ==
    LET immobilizing == {"grappled", "restrained", "paralyzed"}
        active == active_conditions(list)
    IN IF is_incapacitated(list) THEN FALSE
       ELSE ~\E i \in 1..Len(active) : active[i].condition_type \in immobilizing

\* check_condition_effects, lines 297-312: the effects before the loop
BaseEffects(list) ==
    [can_take_actions |-> ~is_incapacitated(list),
     can_move |-> can_move(list),
     is_incapacitated |-> is_incapacitated(list),
     attack_advantage |-> FALSE, attack_disadvantage |-> FALSE,
     attacks_against_advantage |-> FALSE,
     attacks_against_disadvantage |-> FALSE,
     save_advantage |-> FALSE, save_disadvantage |-> FALSE,
     auto_fail_str_saves |-> FALSE, auto_fail_dex_saves |-> FALSE,
     speed_modifier |-> 0, is_prone |-> FALSE,
     active_conditions |->
        [i \in 1..Len(active_conditions(list)) |->
            active_conditions(list)[i].condition_type]]

\* mutant: a poisoned character loses the disadvantage set by other conditions
ConditionEffect_Override(e, ct) ==
    CASE ct = "blinded" ->
           [e EXCEPT !.attack_disadvantage = TRUE,
                     !.attacks_against_advantage = TRUE]
      [] ct = "poisoned" -> [e EXCEPT !.attack_disadvantage = FALSE]
      [] ct = "prone" ->
           [e EXCEPT !.attack_disadvantage = TRUE, !.is_prone = TRUE]
      [] OTHER -> e

\* check_condition_effects, lines 316-356: one pass of the loop body
ConditionEffect(e, ct) ==
    CASE ct = "blinded" ->
           [e EXCEPT !.attack_disadvantage = TRUE,
                     !.attacks_against_advantage = TRUE]
      [] ct = "frightened" -> [e EXCEPT !.attack_disadvantage = TRUE]
      [] ct = "invisible" ->
           [e EXCEPT !.attack_advantage = TRUE,
                     !.attacks_against_disadvantage = TRUE]
      [] ct = "paralyzed" ->
           [e EXCEPT !.auto_fail_str_saves = TRUE, !.auto_fail_dex_saves = TRUE,
                     !.attacks_against_advantage = TRUE]
      [] ct = "poisoned" -> [e EXCEPT !.attack_disadvantage = TRUE]
      [] ct = "prone" ->
           [e EXCEPT !.attack_disadvantage = TRUE, !.is_prone = TRUE]
      [] ct = "restrained" ->
           [e EXCEPT !.attack_disadvantage = TRUE,
                     !.attacks_against_advantage = TRUE,
                     !.save_disadvantage = TRUE, !.speed_modifier = -999]
      [] ct = "stunned" ->
           [e EXCEPT !.auto_fail_str_saves = TRUE, !.auto_fail_dex_saves = TRUE,
                     !.attacks_against_advantage = TRUE]
      [] ct = "unconscious" ->
           [e EXCEPT !.auto_fail_str_saves = TRUE, !.auto_fail_dex_saves = TRUE,
                     !.attacks_against_advantage = TRUE, !.is_prone = TRUE]
      [] ct \in {"grappled", "restrained"} -> [e EXCEPT !.speed_modifier = -999]
      [] OTHER -> e

\* check_condition_effects, lines 315-356: the loop over the active conditions
RECURSIVE ApplyEffects(_, _)
ApplyEffects(e, active) ==
    IF active = <<>> THEN e
    ELSE ApplyEffects(ConditionEffect(e, Head(active).condition_type), Tail(active))

\* check_condition_effects for a character that has an entry
Effects(list) == ApplyEffects(BaseEffects(list), active_conditions(list))

\* mutant: the new duration always replaces the old one
LongerRemaining_Overwrite(existing, condition) ==
    [existing EXCEPT !.rounds_remaining = condition.rounds_remaining]

\* apply_condition, lines 205-211: the existing condition after a
\* re-application of its type
LongerRemaining(existing, condition) ==
    IF /\ condition.duration_type = "rounds"
       /\ existing.duration_type = "rounds"
       /\ existing.rounds_remaining # None
       /\ condition.rounds_remaining # None
    THEN IF condition.rounds_remaining[1] > existing.rounds_remaining[1]
         THEN [existing EXCEPT !.rounds_remaining = condition.rounds_remaining]
         ELSE existing
    ELSE existing

\* mutant: the round counter is not decremented
Decremented_Stuck(c) == c

\* advance_round, lines 270-272: one condition after the round
Decremented(c) ==
    IF c.duration_type = "rounds" /\ c.rounds_remaining # None
    THEN [c EXCEPT !.rounds_remaining = Some(@[1] - 1)]
    ELSE c

\* advance_round, lines 270-274: the conditions appended to expired
ExpiredThisRound(list) ==
    LET after == [i \in 1..Len(list) |-> Decremented(list[i])] IN
    Keep(after, {i \in 1..Len(list) :
                    /\ list[i].duration_type = "rounds"
                    /\ list[i].rounds_remaining # None
                    /\ is_expired(after[i])})

\* advance_round, lines 270-277: the conditions left after the round
AfterRound(list) ==
    LET after == [i \in 1..Len(list) |-> Decremented(list[i])] IN
    Keep(after, {i \in 1..Len(list) : ~is_expired(after[i])})

\* the call of the last step: condition = the Condition apply_condition
\* returned, expired = the list advance_round returned, effects = the
\* dictionary check_condition_effects returned (None when empty)
CondCall(op, ch, ct, condition, expired, effects) ==
    [op |-> op, character |-> ch, condition_type |-> ct,
     condition |-> condition, expired |-> expired, effects |-> effects]
NoCondCall == CondCall("none", 0, "", None, <<>>, None)

\* history of a condition type on a character: on = the type was applied
\* with a rounds duration R >= 1 while it was not active and has not been
\* applied again, removed or cleared since; calls = advance_round calls since
\* then (counted up to R + 1)
NotApplied == [on |-> FALSE, R |-> 0, calls |-> 0]

InitConditions ==
    /\ charConds = [ch \in CondCharacters |-> None]
    /\ condCall = NoCondCall
    /\ applied = [ch \in CondCharacters |-> [ct \in ConditionTypes |-> NotApplied]]

\* ConditionManager.apply_condition(character_id, character_name,
\*     condition_type, source, duration_type, duration_value)
ApplyCondition(ch, ct, dt, value) ==
    LET list == ConditionsOf(charConds, ch)
        condition == NewCondition(ct, dt, value)
        existing == get_condition(list, ct)
        updated ==
            IF existing # {}
            THEN LET i == CHOOSE i \in existing : TRUE IN
                 [list EXCEPT ![i] = LongerRemaining(list[i], condition)]
            ELSE Append(list, condition)
    IN /\ Len(updated) <= MaxConditions
       /\ charConds' = [charConds EXCEPT ![ch] = Some(updated)]
       /\ condCall' = CondCall("apply_condition", ch, ct, Some(condition), <<>>, None)
       /\ applied' = [applied EXCEPT ![ch][ct] =
              IF dt = "rounds" /\ value >= 1 /\ ~has_condition(list, ct)
              THEN [on |-> TRUE, R |-> value, calls |-> 0]
              ELSE NotApplied]

\* ConditionManager.remove_condition(character_id, condition_type); the call
\* record holds the condition removed, None when the call returns False
RemoveCondition(ch, ct) ==
    IF charConds[ch] = None
    THEN /\ condCall' = CondCall("remove_condition", ch, ct, None, <<>>, None)
         /\ UNCHANGED <<charConds, applied>>
    ELSE LET list == charConds[ch][1]
             condition == get_condition(list, ct)
         IN /\ condCall' = CondCall("remove_condition", ch, ct,
                                    IF condition = {} THEN None
                                    ELSE Some(list[CHOOSE i \in condition : TRUE]),
                                    <<>>, None)
            /\ charConds' = [charConds EXCEPT ![ch] =
                   Some(Keep(list, (1..Len(list)) \ condition))]
            /\ applied' = [applied EXCEPT ![ch][ct] = NotApplied]

\* ConditionManager.advance_round(character_id)
AdvanceRound(ch) ==
    IF charConds[ch] = None
    THEN /\ condCall' = CondCall("advance_round", ch, "", None, <<>>, None)
         /\ UNCHANGED <<charConds, applied>>
    ELSE LET list == charConds[ch][1] IN
         /\ charConds' = [charConds EXCEPT ![ch] = Some(AfterRound(list))]
         /\ condCall' =
                CondCall("advance_round", ch, "", None, ExpiredThisRound(list), None)
         /\ applied' = [applied EXCEPT ![ch] =
                [ct \in ConditionTypes |->
                    IF @[ct].on
                    THEN [@[ct] EXCEPT !.calls = Min(@ + 1, applied[ch][ct].R + 1)]
                    ELSE @[ct]]]

\* ConditionManager.check_condition_effects(character_id)
CheckConditionEffects(ch) ==
    /\ condCall' = CondCall("check_condition_effects", ch, "", None, <<>>,
                            IF charConds[ch] = None THEN None
                            ELSE Some(Effects(charConds[ch][1])))
    /\ UNCHANGED <<charConds, applied>>

\* ConditionManager.clear_all_conditions(character_id)
ClearAllConditions(ch) ==
    /\ condCall' = CondCall("clear_all_conditions", ch, "", None, <<>>, None)
    /\ IF charConds[ch] = None
       THEN UNCHANGED <<charConds, applied>>
       ELSE /\ charConds' = [charConds EXCEPT ![ch] = Some(<<>>)]
            /\ applied' = [applied EXCEPT ![ch] =
                              [ct \in ConditionTypes |-> NotApplied]]

\* conditions with durations, on a few condition types
NextConditions ==
    \/ \E ch \in CondCharacters, ct \in TimedTypes, dt \in TimedDurations,
          value \in DurationValues :
         ApplyCondition(ch, ct, dt, value)
           /\ UNCHANGED <<tokenVars, raceVars, turnVars, combatVars, presenceVars, syncVars, diceVars>>
    \/ \E ch \in CondCharacters, ct \in TimedTypes :
         RemoveCondition(ch, ct)
           /\ UNCHANGED <<tokenVars, raceVars, turnVars, combatVars, presenceVars, syncVars, diceVars>>
    \/ \E ch \in CondCharacters :
         AdvanceRound(ch) /\ UNCHANGED <<tokenVars, raceVars, turnVars, combatVars, presenceVars, syncVars, diceVars>>
    \/ \E ch \in CondCharacters :
         ClearAllConditions(ch)
           /\ UNCHANGED <<tokenVars, raceVars, turnVars, combatVars, presenceVars, syncVars, diceVars>>

\* every condition type, with durations that do not run out
NextEffects ==
    \/ \E ch \in CondCharacters, ct \in ConditionTypes :
         ApplyCondition(ch, ct, "permanent", 0)
           /\ UNCHANGED <<tokenVars, raceVars, turnVars, combatVars, presenceVars, syncVars, diceVars>>
    \/ \E ch \in CondCharacters, ct \in ConditionTypes :
         RemoveCondition(ch, ct)
           /\ UNCHANGED <<tokenVars, raceVars, turnVars, combatVars, presenceVars, syncVars, diceVars>>
    \/ \E ch \in CondCharacters :
         CheckConditionEffects(ch)
           /\ UNCHANGED <<tokenVars, raceVars, turnVars, combatVars, presenceVars, syncVars, diceVars>>

(***************************************************************************)
(* PresenceManager (presence_manager.py)                                   *)
(***************************************************************************)

\* model bounds: the clock runs up to MaxPeriods heartbeat timeouts
MaxPeriods == 12

\* PresenceManager.__init__
heartbeat_timeout == 30
offline_timeout == 300

\* cleanup_stale_connections: timedelta(hours=24), in seconds
stale_cutoff == 86400

\* PresenceStatus
PresenceStatuses == {"online", "away", "offline"}

\* the session and the player whose presence is explored, and the player's
\* connection ids
PresenceSession == 1
PresencePlayer == 1
AllConnections == {"ws1", "ws2"}

\* the connections whose calls are explored
Connections == {"ws1"}

\* the steps by which the clock moves between calls
ClockSteps == {heartbeat_timeout, offline_timeout - heartbeat_timeout}

\* PlayerPresence(...) as track_connection creates it
NewPresence(conn, t) ==
    [session_id |-> PresenceSession, player_id |-> PresencePlayer,
     connection_id |-> conn, status |-> "online", last_heartbeat |-> t,
     connected_at |-> t, disconnected_at |-> None]

\* mutant: a stale heartbeat makes any row away
StaleStatus_AlwaysAway(row, t) ==
    LET time_since_heartbeat == t - row.last_heartbeat IN
    IF time_since_heartbeat > offline_timeout
    THEN IF row.status # "offline"
         THEN [row EXCEPT !.status = "offline", !.disconnected_at = Some(t)]
         ELSE row
    ELSE IF time_since_heartbeat > heartbeat_timeout
         THEN [row EXCEPT !.status = "away"]
         ELSE row

\* PresenceManager._update_stale_status(presence) at time t
StaleStatus(row, t) ==
    LET time_since_heartbeat == t - row.last_heartbeat IN
    IF time_since_heartbeat > offline_timeout
    THEN IF row.status # "offline"
         THEN [row EXCEPT !.status = "offline", !.disconnected_at = Some(t)]
         ELSE row
    ELSE IF time_since_heartbeat > heartbeat_timeout
         THEN IF row.status = "online" THEN [row EXCEPT !.status = "away"] ELSE row
         ELSE row

\* mutant: a heartbeat brings any row back online
HeartbeatStatus_AlwaysOnline(status) == "online"

\* update_heartbeat, lines 93-94: the status after a heartbeat
HeartbeatStatus(status) == IF status = "away" THEN "online" ELSE status

\* the rows of the player, and those a query ordered by last_heartbeat
\* descending can return first
PlayerRows(rows) == {c \in AllConnections : rows[c] # None}
MostRecent(rows) ==
    {c \in PlayerRows(rows) :
        \A d \in PlayerRows(rows) :
            rows[d][1].last_heartbeat <= rows[c][1].last_heartbeat}

\* the read of the last step (none when the step was another call): conn =
\* the connection of the row it read ("" when there is none), status = the
\* status it reported, counts =
\* the online, away and offline counts of get_presence_summary
PresCall(op, conn, status, counts) ==
    [op |-> op, conn |-> conn, status |-> status, counts |-> counts]
NoPresCall == PresCall("none", "", "", <<0, 0, 0>>)

\* get_presence_summary, lines 209-215: the counts for one player
StatusCounts(status) ==
    <<IF status = "online" THEN 1 ELSE 0,
      IF status = "away" THEN 1 ELSE 0,
      IF status \notin {"online", "away"} THEN 1 ELSE 0>>

\* history of a row: pure = created by track_connection and never
\* disconnected or manually set since; seen = the status the last read
\* reported since the last track_connection, update_heartbeat or
\* update_status ("" when none); cut = disconnect was called and since then
\* only reads and update_heartbeat calls
NoNote == [pure |-> FALSE, seen |-> "", cut |-> FALSE]

InitPresence ==
    /\ clock = 0
    /\ presences = [c \in AllConnections |-> None]
    /\ presCall = NoPresCall
    /\ notes = [c \in AllConnections |-> NoNote]

\* PresenceManager.track_connection(session_id, player_id, connection_id)
TrackConnection(conn) ==
    /\ presences' = [presences EXCEPT ![conn] =
          IF @ # None
          THEN Some([@[1] EXCEPT !.status = "online", !.last_heartbeat = clock,
                                 !.disconnected_at = None])
          ELSE Some(NewPresence(conn, clock))]
    /\ presCall' = NoPresCall
    /\ notes' = [notes EXCEPT ![conn] =
          [pure |-> IF presences[conn] = None THEN TRUE ELSE @.pure,
           seen |-> "", cut |-> FALSE]]
    /\ UNCHANGED clock

\* PresenceManager.update_heartbeat(session_id, player_id, connection_id)
UpdateHeartbeat(conn) ==
    /\ presCall' = NoPresCall
    /\ IF presences[conn] = None
       THEN UNCHANGED <<presences, notes>>
       ELSE /\ presences' = [presences EXCEPT ![conn] =
                  Some([@[1] EXCEPT !.last_heartbeat = clock,
                                    !.status = HeartbeatStatus(@)])]
            /\ notes' = [notes EXCEPT ![conn].seen = ""]
    /\ UNCHANGED clock

\* PresenceManager.update_status(player_id, session_id, status)
UpdateStatus(status) ==
    /\ presCall' = NoPresCall
    /\ presences' = [c \in AllConnections |->
          IF presences[c] = None THEN None
          ELSE Some([presences[c][1] EXCEPT
                        !.status = status,
                        !.disconnected_at =
                            IF status = "offline" THEN Some(clock) ELSE @])]
    /\ notes' = [c \in AllConnections |->
          IF presences[c] = None THEN notes[c] ELSE NoNote]
    /\ UNCHANGED clock

\* PresenceManager.disconnect(session_id, player_id, connection_id)
Disconnect(conn) ==
    /\ presCall' = NoPresCall
    /\ IF presences[conn] = None
       THEN UNCHANGED <<presences, notes>>
       ELSE /\ presences' = [presences EXCEPT ![conn] =
                  Some([@[1] EXCEPT !.status = "offline",
                                    !.disconnected_at = Some(clock)])]
            /\ notes' = [notes EXCEPT ![conn].pure = FALSE, ![conn].cut = TRUE]
    /\ UNCHANGED clock

\* the read of the player's most recent row that get_player_status and
\* get_presence_summary share: the query, _update_stale_status, the status
ReadStatus(op) ==
    /\ IF PlayerRows(presences) = {}
       THEN /\ presCall' = PresCall(op, "", "offline", StatusCounts("offline"))
            /\ UNCHANGED <<presences, notes>>
       ELSE \E c \in MostRecent(presences) :
            LET row == StaleStatus(presences[c][1], clock) IN
            /\ presences' = [presences EXCEPT ![c] = Some(row)]
            /\ presCall' = PresCall(op, c, row.status, StatusCounts(row.status))
            /\ notes' = [notes EXCEPT ![c].seen = row.status]
    /\ UNCHANGED clock

\* PresenceManager.get_player_status(session_id, player_id)
GetPlayerStatus == ReadStatus("get_player_status")

\* PresenceManager.get_presence_summary(session_id), the session having the
\* one player
GetPresenceSummary == ReadStatus("get_presence_summary")

\* PresenceManager.cleanup_stale_connections(session_id)
CleanupStaleConnections ==
    LET cutoff == clock - stale_cutoff
        stale == {c \in PlayerRows(presences) :
                    /\ presences[c][1].status = "offline"
                    /\ presences[c][1].disconnected_at # None
                    /\ presences[c][1].disconnected_at[1] < cutoff}
    IN /\ presences' = [c \in AllConnections |->
                           IF c \in stale THEN None ELSE presences[c]]
       /\ notes' = [c \in AllConnections |-> IF c \in stale THEN NoNote ELSE notes[c]]
       /\ presCall' = NoPresCall
       /\ UNCHANGED clock

\* time passes between two calls
ClockTick(d) ==
    /\ clock + d <= MaxPeriods * heartbeat_timeout
    /\ clock' = clock + d
    /\ presCall' = NoPresCall
    /\ UNCHANGED <<presences, notes>>

NextPresence ==
    \/ \E c \in Connections : TrackConnection(c) /\ UNCHANGED <<tokenVars, raceVars, turnVars, combatVars, condVars, syncVars, diceVars>>
    \/ \E c \in Connections : UpdateHeartbeat(c) /\ UNCHANGED <<tokenVars, raceVars, turnVars, combatVars, condVars, syncVars, diceVars>>
    \/ \E st \in PresenceStatuses : UpdateStatus(st) /\ UNCHANGED <<tokenVars, raceVars, turnVars, combatVars, condVars, syncVars, diceVars>>
    \/ \E c \in Connections : Disconnect(c) /\ UNCHANGED <<tokenVars, raceVars, turnVars, combatVars, condVars, syncVars, diceVars>>
    \/ GetPlayerStatus /\ UNCHANGED <<tokenVars, raceVars, turnVars, combatVars, condVars, syncVars, diceVars>>
    \/ GetPresenceSummary /\ UNCHANGED <<tokenVars, raceVars, turnVars, combatVars, condVars, syncVars, diceVars>>
    \/ CleanupStaleConnections /\ UNCHANGED <<tokenVars, raceVars, turnVars, combatVars, condVars, syncVars, diceVars>>
    \/ \E d \in ClockSteps : ClockTick(d) /\ UNCHANGED <<tokenVars, raceVars, turnVars, combatVars, condVars, syncVars, diceVars>>

\* the player connected through two connections: the calls made for either
\* connection, with the clock moving by a few seconds between calls, up to
\* MaxConnectionSteps times
MaxConnectionSteps == 2
ConnectionSteps == {10}
ConnectionTick ==
    \E d \in ConnectionSteps :
       /\ clock + d <= MaxConnectionSteps * d
       /\ ClockTick(d)

NextConnections ==
    /\ UNCHANGED <<tokenVars, raceVars, turnVars, combatVars, condVars, syncVars,
                   diceVars>>
    /\ \/ \E c \in AllConnections : TrackConnection(c)
       \/ \E c \in AllConnections : UpdateHeartbeat(c)
       \/ \E c \in AllConnections : Disconnect(c)
       \/ GetPlayerStatus
       \/ GetPresenceSummary
       \/ ConnectionTick

(***************************************************************************)
(* SyncManager (sync_manager.py), on the Turn table of the TurnManager     *)
(***************************************************************************)

\* model bound: the actions in one batch
MaxBatch == 3

\* timestamps are counted in half seconds: the window of line 86 (1.0 s)
TicksPerSecond == 2

\* _resolve_by_initiative, line 327: the initiative to beat at the start
InitialHighest == -1

\* the fields of an action that detect_conflicts reads; target "" is an action
\* without a target (action.get("target") is None)
BatchCharacters == {1, 2}
BatchStamps == {0, 3, 4}
BatchTargets == {"door"}
BatchActions ==
    {[character_id |-> c, timestamp |-> t, target |-> ""]
        : c \in BatchCharacters, t \in BatchStamps}
    \cup {[character_id |-> c, timestamp |-> 0, target |-> g]
        : c \in BatchCharacters, g \in BatchTargets}
Batches == SeqsUpTo(BatchActions, MaxBatch)

\* the batches passed to the long-lived manager whose conflicts are resolved
ResolveBatches ==
    SeqsUpTo({[character_id |-> c, timestamp |-> 0, target |-> ""]
                 : c \in BatchCharacters}, 2)

\* ResolutionStrategy
ResolutionStrategies ==
    {"first_come_first_serve", "initiative_order", "dm_decision", "reroll",
     "cancel_all"}

\* the sessions whose actions are synchronised, and the queue they start
SyncSessions == {1}
SyncQueues == {<<1, 2>>}

\* ConflictResolution(conflict_id, conflict_type, session_id,
\* involved_character_ids, ...); the id f"conflict_{session_id}_{n}" is the
\* pair <<session_id, n>>. description, notes and the timestamps are left out.
NewConflict(s, n, type, involved) ==
    [conflict_id |-> <<s, n>>, conflict_type |-> type, session_id |-> s,
     involved_character_ids |-> involved,
     resolution_strategy |-> None, resolved |-> FALSE,
     winner_character_id |-> None]

\* a dict with one more key
Put(dict, key, value) ==
    [k \in DOMAIN dict \cup {key} |-> IF k = key THEN value ELSE dict[k]]

\* abs((timestamp - action_times[char_id]).total_seconds()), in half seconds
TimeDiff(a, b) == IF a >= b THEN a - b ELSE b - a

\* detect_conflicts, lines 78-97: action_times keeps the timestamp of the
\* first action of each character; every later action of the character is
\* compared with that one
RECURSIVE SimultaneousScan(_, _, _, _)
SimultaneousScan(s, batch, action_times, conflicts) ==
    IF batch = <<>> THEN conflicts
    ELSE LET action == Head(batch)
             char_id == action.character_id
         IN IF char_id \in DOMAIN action_times
            THEN SimultaneousScan(s, Tail(batch), action_times,
                    IF TimeDiff(action.timestamp, action_times[char_id])
                          < TicksPerSecond
                    THEN Append(conflicts,
                            NewConflict(s, Len(conflicts), "simultaneous_action",
                                        <<char_id>>))
                    ELSE conflicts)
            ELSE SimultaneousScan(s, Tail(batch),
                    Put(action_times, char_id, action.timestamp), conflicts)

\* mutant: no action is out of turn
OutOfTurn_Never(char_id, current_character) == FALSE

\* detect_conflicts, line 104
OutOfTurn(char_id, current_character) == char_id # current_character

\* detect_conflicts, lines 102-113, with the character of the current turn
RECURSIVE TurnOrderScan(_, _, _, _)
TurnOrderScan(s, batch, current_character, conflicts) ==
    IF batch = <<>> THEN conflicts
    ELSE LET char_id == Head(batch).character_id IN
         TurnOrderScan(s, Tail(batch), current_character,
            IF OutOfTurn(char_id, current_character)
            THEN Append(conflicts,
                    NewConflict(s, Len(conflicts), "turn_order_violation",
                                <<char_id, current_character>>))
            ELSE conflicts)

\* detect_conflicts, lines 116-131: targets keeps the character that named a
\* target first
RECURSIVE ResourceScan(_, _, _, _)
ResourceScan(s, batch, targets, conflicts) ==
    IF batch = <<>> THEN conflicts
    ELSE LET target == Head(batch).target
             char_id == Head(batch).character_id
         IN IF target # "" /\ target \in DOMAIN targets
            THEN ResourceScan(s, Tail(batch), targets,
                    Append(conflicts,
                       NewConflict(s, Len(conflicts), "resource_conflict",
                                   <<char_id, targets[target]>>)))
            ELSE IF target # ""
            THEN ResourceScan(s, Tail(batch), Put(targets, target, char_id),
                              conflicts)
            ELSE ResourceScan(s, Tail(batch), targets, conflicts)

\* _get_current_turn(session_id): first() returns one of the ACTIVE rows, or
\* None
CurrentTurns(tbl, s) ==
    IF ActiveTurns(tbl, s) = {} THEN {None}
    ELSE {Some(i) : i \in ActiveTurns(tbl, s)}

\* detect_conflicts(session_id, actions), lines 75-131: the list returned, for
\* each row that _get_current_turn can return
detect_conflicts(tbl, s, batch) ==
    {LET simultaneous == SimultaneousScan(s, batch, <<>>, <<>>)
         ordered == IF current = None THEN simultaneous
                    ELSE TurnOrderScan(s, batch, tbl[current[1]].character_id,
                                       simultaneous)
     IN [current |-> current,
         conflicts |-> ResourceScan(s, batch, <<>>, ordered)]
       : current \in CurrentTurns(tbl, s)}

\* detect_conflicts, lines 134-135: the conflicts stored under their ids
RECURSIVE Stored(_, _)
Stored(dict, conflicts) ==
    IF conflicts = <<>> THEN dict
    ELSE Stored(Put(dict, Head(conflicts).conflict_id, Head(conflicts)),
                Tail(conflicts))

\* _resolve_by_initiative(session_id, character_ids), lines 327-341: the
\* winners it can return; first() returns one of the rows of the character
RECURSIVE InitiativeScan(_, _, _, _, _)
InitiativeScan(tbl, s, character_ids, highest_initiative, winner_id) ==
    IF character_ids = <<>> THEN {winner_id}
    ELSE LET char_id == Head(character_ids)
             rows == CharacterTurns(tbl, s, char_id)
         IN IF rows = {}
            THEN InitiativeScan(tbl, s, Tail(character_ids),
                                highest_initiative, winner_id)
            ELSE UNION {IF tbl[i].initiative > highest_initiative
                        THEN InitiativeScan(tbl, s, Tail(character_ids),
                                            tbl[i].initiative, Some(char_id))
                        ELSE InitiativeScan(tbl, s, Tail(character_ids),
                                            highest_initiative, winner_id)
                          : i \in rows}
resolve_by_initiative(tbl, s, character_ids) ==
    InitiativeScan(tbl, s, character_ids, InitialHighest, None)

\* mutant: the last character listed wins
FirstListed_Last(character_ids) == character_ids[Len(character_ids)]

\* resolve_conflict, line 178
FirstListed(character_ids) == character_ids[1]

\* resolve_conflict, lines 166-180: the winners the strategy can record
Winners(tbl, conflict, strategy, winner_character_id) ==
    CASE strategy = "initiative_order" ->
           resolve_by_initiative(tbl, conflict.session_id,
                                 conflict.involved_character_ids)
      [] strategy = "reroll" ->
           {Some(conflict.involved_character_ids[i])
              : i \in 1..Len(conflict.involved_character_ids)}
      [] strategy = "first_come_first_serve" ->
           {Some(FirstListed(conflict.involved_character_ids))}
      [] OTHER -> {winner_character_id}

\* resolve_conflict(conflict_id, strategy, winner_character_id): what it
\* returns, the dict afterwards and the conflict as resolved
resolve_conflict(dict, tbl, conflict_id, strategy, winner_character_id) ==
    IF conflict_id \notin DOMAIN dict
    THEN {[ok |-> FALSE, dict |-> dict, conflict |-> None]}
    ELSE {[ok |-> TRUE,
           dict |-> [k \in DOMAIN dict \ {conflict_id} |-> dict[k]],
           conflict |-> Some([dict[conflict_id] EXCEPT
                                 !.resolution_strategy = Some(strategy),
                                 !.resolved = TRUE,
                                 !.winner_character_id = w])]
            : w \in Winners(tbl, dict[conflict_id], strategy,
                            winner_character_id)}

\* client_state arguments: the claimed current-turn character and round (None
\* when the key is missing) and the claimed hit points of some characters;
\* character 3 has no row in the Character table
ClientCharacters == {1, 3}
ClientHps == {1, 2}
ClientStates ==
    UNION {[turn : {None, Some(1), Some(2)}, round : {None, Some(1), Some(2)},
            characters : [listed -> ClientHps]]
              : listed \in SUBSET ClientCharacters}
NoClient == [turn |-> None, round |-> None, characters |-> <<>>]

\* check_state_consistency, lines 259-268: the HP discrepancies, the listed
\* characters taken in ascending order
RECURSIVE HpDiscrepancies(_, _)
HpDiscrepancies(client_characters, listed) ==
    IF listed = {} THEN <<>>
    ELSE LET char_id == CHOOSE c \in listed : \A d \in listed : c <= d
             rest == HpDiscrepancies(client_characters, listed \ {char_id})
         IN IF char_id \in DbCharacters
               /\ client_characters[char_id] # char_current_hp(char_id)
            THEN <<[kind |-> "hp", character |-> char_id]>> \o rest
            ELSE rest

\* check_state_consistency(session_id, client_state): the results it can
\* return, for each row that _get_current_turn can return
check_state_consistency(tbl, s, client) ==
    {LET turn == IF current # None
                    /\ client.turn # Some(tbl[current[1]].character_id)
                 THEN <<[kind |-> "turn", character |-> 0]>> ELSE <<>>
         round == IF current # None
                     /\ client.round # Some(tbl[current[1]].round_number)
                  THEN <<[kind |-> "round", character |-> 0]>> ELSE <<>>
         discrepancies ==
             turn \o round
               \o HpDiscrepancies(client.characters, DOMAIN client.characters)
     IN [current |-> current, consistent |-> Len(discrepancies) = 0,
         discrepancies |-> discrepancies]
       : current \in CurrentTurns(tbl, s)}

\* force_sync, lines 295-299, with the round number left at its default
CurrentTurnEntry_FirstRound(t) ==
    [character_id |-> t.character_id, round_number |-> DefaultRound]

\* force_sync, lines 295-299: the "current_turn" entry for the ACTIVE row
CurrentTurnEntry(t) ==
    [character_id |-> t.character_id, round_number |-> t.round_number]

\* force_sync, lines 300-309: the "turn_queue" entry of a row
QueueEntry(t) ==
    [character_id |-> t.character_id, initiative |-> t.initiative,
     status |-> t.status, turn_order |-> t.turn_order]

\* force_sync(session_id): the states it can return, for each row that
\* _get_current_turn can return and each order the query ordered by
\* turn_order can list the rows in; names and the timestamp are left out
force_sync(tbl, s) ==
    {[current_turn |-> IF current = None THEN None
                       ELSE Some(CurrentTurnEntry(tbl[current[1]])),
      turn_queue |-> [i \in 1..Len(q) |-> QueueEntry(tbl[q[i]])]]
       : current \in CurrentTurns(tbl, s), q \in OrderedBy(tbl, SessionTurns(tbl, s))}
NoState == [current_turn |-> None, turn_queue |-> <<>>]

\* the view a client takes from the state force_sync returned: the character
\* and round of "current_turn" (absent when it is None), no character HP
ClientView(state) ==
    [turn |-> IF state.current_turn = None THEN None
              ELSE Some(state.current_turn[1].character_id),
     round |-> IF state.current_turn = None THEN None
               ELSE Some(state.current_turn[1].round_number),
     characters |-> <<>>]

\* the SyncManager call of this step and what it returned: current = the row
\* _get_current_turn returned, state = what force_sync returned, synced = the
\* client state checked is the view of the state that force_sync returned
\* in the step before, for the same session
NoSyncCall ==
    [op |-> "none", session |-> 0, batch |-> <<>>, current |-> None,
     conflicts |-> <<>>, id |-> <<0, 0>>, strategy |-> "", ok |-> FALSE,
     conflict |-> None, client |-> NoClient, consistent |-> FALSE,
     discrepancies |-> <<>>, state |-> NoState, synced |-> FALSE]

InitSync ==
    /\ active_conflicts = <<>>
    /\ syncCall = NoSyncCall

\* detect_conflicts(session_id, actions) on the manager of the server
DetectConflicts(s, batch) ==
    /\ \E out \in detect_conflicts(turns, s, batch) :
          /\ active_conflicts' = Stored(active_conflicts, out.conflicts)
          /\ syncCall' = [NoSyncCall EXCEPT !.op = "detect", !.session = s,
                             !.batch = batch, !.current = out.current,
                             !.conflicts = out.conflicts]
    /\ UNCHANGED turnVars

\* SyncManager(db).detect_conflicts(session_id, actions): the call on a
\* manager made for it, as test_multiplayer.py makes it; the conflicts are
\* stored in the dict of that manager
FreshDetectConflicts(s, batch) ==
    /\ \E out \in detect_conflicts(turns, s, batch) :
          syncCall' = [NoSyncCall EXCEPT !.op = "detect", !.session = s,
                          !.batch = batch, !.current = out.current,
                          !.conflicts = out.conflicts]
    /\ UNCHANGED <<active_conflicts, turnVars>>

\* resolve_conflict(conflict_id, strategy, winner_character_id)
ResolveConflict(conflict_id, strategy, winner_character_id) ==
    /\ \E out \in resolve_conflict(active_conflicts, turns, conflict_id,
                                   strategy, winner_character_id) :
          /\ active_conflicts' = out.dict
          /\ syncCall' = [NoSyncCall EXCEPT !.op = "resolve",
                             !.id = conflict_id, !.strategy = strategy,
                             !.ok = out.ok, !.conflict = out.conflict]
    /\ UNCHANGED turnVars

\* check_state_consistency(session_id, client_state)
CheckStateConsistency(s, client) ==
    /\ \E out \in check_state_consistency(turns, s, client) :
          syncCall' = [NoSyncCall EXCEPT !.op = "check", !.session = s,
                          !.client = client, !.current = out.current,
                          !.consistent = out.consistent,
                          !.discrepancies = out.discrepancies,
                          !.synced = /\ syncCall.op = "force_sync"
                                     /\ syncCall.session = s
                                     /\ client = ClientView(syncCall.state)]
    /\ UNCHANGED <<active_conflicts, turnVars>>

\* force_sync(session_id)
ForceSync(s) ==
    /\ \E state \in force_sync(turns, s) :
          syncCall' = [NoSyncCall EXCEPT !.op = "force_sync", !.session = s,
                                         !.state = state]
    /\ UNCHANGED <<active_conflicts, turnVars>>

\* the TurnManager calls made between two SyncManager calls; the record of the
\* last SyncManager call is gone by then
SyncTurnStep ==
    /\ \/ \E s \in SyncSessions, ids \in SyncQueues :
            SessionTurns(turns, s) = {} /\ StartTurnQueue(s, ids, 0)
       \/ \E s \in SyncSessions : AdvanceTurn(s)
       \/ \E s \in SyncSessions : EndTurnQueue(s)
    /\ syncCall' = NoSyncCall
    /\ UNCHANGED <<active_conflicts, tokenVars, raceVars, combatVars, condVars,
                   presenceVars, diceVars>>

\* the ids resolve_conflict is called with
ResolveIds == {<<s, n>> : s \in SyncSessions, n \in 0..2}
\* the strategies passed; cancel_all takes the branch of dm_decision
ResolveStrategies == ResolutionStrategies \ {"cancel_all"}
ResolveWinners == {None, Some(1)}

\* batches checked by a manager made for the call, one call at a time
NextDetect ==
    \/ SyncTurnStep
    \/ \E s \in SyncSessions, batch \in Batches :
          /\ syncCall.op = "none"
          /\ FreshDetectConflicts(s, batch)
          /\ UNCHANGED <<tokenVars, raceVars, combatVars, condVars, presenceVars, diceVars>>

\* conflicts detected and resolved on the manager of the server
NextResolve ==
    \/ SyncTurnStep
    \/ \E s \in SyncSessions, batch \in ResolveBatches :
          /\ DetectConflicts(s, batch)
          /\ UNCHANGED <<tokenVars, raceVars, combatVars, condVars, presenceVars, diceVars>>
    \/ \E id \in ResolveIds, strategy \in ResolveStrategies,
          w \in ResolveWinners :
          /\ ResolveConflict(id, strategy, w)
          /\ UNCHANGED <<tokenVars, raceVars, combatVars, condVars, presenceVars, diceVars>>

\* the view of a client that has just resynchronized
SyncedClients ==
    IF syncCall.op = "force_sync" THEN {ClientView(syncCall.state)} ELSE {}

\* client views checked against the server
NextConsistency ==
    \/ SyncTurnStep
    \/ \E s \in SyncSessions, client \in ClientStates \cup SyncedClients :
          /\ CheckStateConsistency(s, client)
          /\ UNCHANGED <<tokenVars, raceVars, combatVars, condVars, presenceVars, diceVars>>
    \/ \E s \in SyncSessions :
          /\ ForceSync(s)
          /\ UNCHANGED <<tokenVars, raceVars, combatVars, condVars, presenceVars, diceVars>>

(***************************************************************************)
(* CombatManager and TurnManager serving two sessions                      *)
(***************************************************************************)

\* the arguments of the calls made for either session
PartyIds == {1, 2}
PartyQueues == {<<1>>, <<1, 2>>}
PartyFormula == [count |-> 1, sides |-> 2, modifier |-> 0]
PartyAmount == 1
PartyRoll == 20

\* the CombatManager calls for session s; its dict is all the state they
\* share with the calls for the other session
SessionCombatStep(s) ==
    \/ combats[s] = None /\ StartCombat(s, PartyIds, [c \in PartyIds |-> PartyRoll])
    \/ NextTurn(s)
    \/ \E adv \in AttackAdvantages, bonus \in AttackBonuses :
          ResolveAttack(s, 1, 2, bonus, PartyFormula, adv)
    \/ ApplyDamage(s, 2, PartyAmount)
    \/ ApplyHealing(s, 2, PartyAmount)
    \/ EndCombat(s)

\* the TurnManager calls for session s; the Turn table is all the state they
\* share with the calls for the other session
SessionTurnStep(s) ==
    \/ \E ids \in PartyQueues :
          SessionTurns(turns, s) = {} /\ StartTurnQueue(s, ids, 0)
    \/ AdvanceTurn(s)
    \/ \E c \in PartyIds, ready \in BOOLEAN : SetPlayerReady(s, c, ready)
    \/ \E c \in PartyIds : SkipTurn(s, c)

\* a call for session s. The CombatManager keeps its state in its dict and
\* the TurnManager in the Turn table, neither reads the other's: a run
\* exercises one of the two managers, for both sessions.
SessionStep(s) ==
    \/ /\ InitTurn
       /\ SessionCombatStep(s)
       /\ UNCHANGED <<tokenVars, raceVars, turnVars, condVars, presenceVars, syncVars, diceVars>>
    \/ /\ InitCombat
       /\ SessionTurnStep(s)
       /\ UNCHANGED <<tokenVars, raceVars, combatVars, condVars, presenceVars, syncVars, diceVars>>

NextSessions == \E s \in SessionIds : SessionStep(s)

(***************************************************************************)
(* The dice functions (rules/dice.py)                                      *)
(***************************************************************************)

\* model bound: the largest dice count of the formulas rolled
MaxDice == 2

\* the formulas passed to roll_dice and roll_damage, as the regular
\* expression of parse_dice_formula splits them into count, sides and
\* modifier; those with count 0 or 1 side fail the range validation
DiceModifiers == {-3, 0, 2}
SmallFormulas ==
    {[count |-> n, sides |-> m, modifier |-> k] :
        n \in 0..MaxDice, m \in {1, 2, 3}, k \in DiceModifiers}
D20Formulas ==
    {[count |-> n, sides |-> 20, modifier |-> k] :
        n \in {1, 2}, k \in DiceModifiers}

\* the arguments of resolve_check and resolve_attack
AbilityScores == {7, 14}
ProficiencyBonuses == {0, 2}
CheckDcs == {-5, 12, 30}
DiceAttackBonuses == {-8, 5}

\* "1d20", the formula resolve_check and resolve_attack roll
D20 == [count |-> 1, sides |-> 20, modifier |-> 0]

\* sum(rolls)
RECURSIVE Sum(_)
Sum(rolls) == IF rolls = <<>> THEN 0 ELSE rolls[1] + Sum(Tail(rolls))

\* max(rolls) and min(rolls)
MaxOf(rolls) ==
    CHOOSE x \in {rolls[i] : i \in 1..Len(rolls)} :
        \A i \in 1..Len(rolls) : x >= rolls[i]
MinOf(rolls) ==
    CHOOSE x \in {rolls[i] : i \in 1..Len(rolls)} :
        \A i \in 1..Len(rolls) : x <= rolls[i]

\* [roll_die(sides) for _ in range(count)]: every list the dice can show
RollLists(count, sides) == [1..count -> Faces(sides)]

\* roll_dice line 116: a second d20 is rolled
RollsSecond(f, adv) == f.sides = 20 /\ f.count = 1 /\ adv # "normal"

\* roll_dice lines 112-148, once the dice show `rolls` (the second d20
\* included when it is rolled)
RollResult(f, adv, rolls) ==
    IF RollsSecond(f, adv)
    THEN LET kept_roll == IF adv = "advantage" THEN MaxOf(rolls) ELSE MinOf(rolls)
         IN [total |-> kept_roll + f.modifier, rolls |-> rolls,
             is_critical |-> kept_roll = 20, is_critical_fail |-> kept_roll = 1]
    ELSE [total |-> Sum(rolls) + f.modifier, rolls |-> rolls,
          is_critical |-> f.sides = 20 /\ f.count = 1 /\ rolls[1] = 20,
          is_critical_fail |-> f.sides = 20 /\ f.count = 1 /\ rolls[1] = 1]

\* roll_dice(formula, advantage) for a formula that parses: every outcome
roll_dice(f, adv) ==
    {RollResult(f, adv, rolls) :
        rolls \in IF RollsSecond(f, adv) THEN RollLists(2, 20)
                  ELSE RollLists(f.count, f.sides)}

\* resolve_check lines 179-184 and resolve_attack lines 220-225, with the
\* natural 1 and natural 20 rules left out
CheckSuccess_TotalOnly(roll_result, total, dc) == total >= dc

\* resolve_check lines 179-184 and resolve_attack lines 220-225
CheckSuccess(roll_result, total, dc) ==
    IF roll_result.is_critical_fail THEN FALSE
    ELSE IF roll_result.is_critical THEN TRUE
    ELSE total >= dc

\* CheckResult(...) as resolve_check and resolve_attack build it
CheckResult(roll_result, dc, total_modifier, adv) ==
    LET total == roll_result.total + total_modifier IN
    [success |-> CheckSuccess(roll_result, total, dc),
     roll |-> IF Len(roll_result.rolls) = 1 THEN roll_result.rolls[1]
              ELSE IF adv = "advantage" THEN MaxOf(roll_result.rolls)
              ELSE MinOf(roll_result.rolls),
     total |-> total, modifier |-> total_modifier, rolls |-> roll_result.rolls,
     is_critical |-> roll_result.is_critical,
     is_critical_fail |-> roll_result.is_critical_fail]

\* resolve_check(ability_score, dc, proficiency_bonus, advantage): every outcome
resolve_check(ability_score, dc, proficiency_bonus, adv) ==
    LET ability_modifier == (ability_score - 10) \div 2
        total_modifier == ability_modifier + proficiency_bonus
    IN {CheckResult(r, dc, total_modifier, adv) : r \in roll_dice(D20, adv)}

\* resolve_attack(attack_bonus, target_ac, advantage): every outcome
resolve_attack(attack_bonus, target_ac, adv) ==
    {CheckResult(r, target_ac, attack_bonus, adv) : r \in roll_dice(D20, adv)}

\* roll_damage lines 261-262 without the doubling
DamageCount_Single(count, critical) == count

\* roll_damage lines 261-262: the dice are doubled on a critical hit
DamageCount(count, critical) == IF critical THEN count * 2 ELSE count

\* roll_damage(damage_formula, critical) for a formula that parses
roll_damage(f, critical) ==
    {[total |-> Sum(rolls) + f.modifier, rolls |-> rolls,
      is_critical |-> critical, is_critical_fail |-> FALSE] :
        rolls \in RollLists(DamageCount(f.count, critical), f.sides)}

\* the call of the last step: its arguments, whether it raised ValueError,
\* and the RollResult or CheckResult it returned
DiceCall(op, f, adv, critical, dc, raised, result) ==
    [op |-> op, formula |-> f, advantage |-> adv, critical |-> critical,
     dc |-> dc, raised |-> raised, result |-> result]
NoResult ==
    [success |-> FALSE, roll |-> 0, total |-> 0, modifier |-> 0, rolls |-> <<>>,
     is_critical |-> FALSE, is_critical_fail |-> FALSE]
RolledResult(r, f) ==
    [success |-> FALSE, roll |-> 0, total |-> r.total, modifier |-> f.modifier,
     rolls |-> r.rolls, is_critical |-> r.is_critical,
     is_critical_fail |-> r.is_critical_fail]
NoDiceCall == DiceCall("none", D20, "normal", FALSE, 0, FALSE, NoResult)

InitDice == diceCall = NoDiceCall

\* roll_dice(formula, advantage)
RollDice(f, adv) ==
    IF ~FormulaValid(f)
    THEN diceCall' = DiceCall("roll_dice", f, adv, FALSE, 0, TRUE, NoResult)
    ELSE \E r \in roll_dice(f, adv) :
            diceCall' = DiceCall("roll_dice", f, adv, FALSE, 0, FALSE,
                                 RolledResult(r, f))

\* resolve_check(ability_score, dc, proficiency_bonus, advantage)
ResolveCheck(ability_score, dc, proficiency_bonus, adv) ==
    \E r \in resolve_check(ability_score, dc, proficiency_bonus, adv) :
        diceCall' = DiceCall("resolve_check", D20, adv, FALSE, dc, FALSE, r)

\* resolve_attack(attack_bonus, target_ac, advantage)
ResolveAttackRoll(attack_bonus, target_ac, adv) ==
    \E r \in resolve_attack(attack_bonus, target_ac, adv) :
        diceCall' = DiceCall("resolve_attack", D20, adv, FALSE, target_ac, FALSE, r)

\* roll_damage(damage_formula, critical)
RollDamage(f, critical) ==
    IF ~FormulaValid(f)
    THEN diceCall' = DiceCall("roll_damage", f, "normal", critical, 0, TRUE, NoResult)
    ELSE \E r \in roll_damage(f, critical) :
            diceCall' = DiceCall("roll_damage", f, "normal", critical, 0, FALSE,
                                 RolledResult(r, f))

\* the functions keep no state: a behaviour is one call
NextDice ==
    /\ diceCall.op = "none"
    /\ UNCHANGED <<tokenVars, raceVars, turnVars, combatVars, condVars,
                   presenceVars, syncVars>>
    /\ \/ \E f \in SmallFormulas \cup D20Formulas, adv \in Advantages :
             RollDice(f, adv)
       \/ \E a \in AbilityScores, dc \in CheckDcs, p \in ProficiencyBonuses,
             adv \in Advantages : ResolveCheck(a, dc, p, adv)
       \/ \E b \in DiceAttackBonuses, ac \in CheckDcs, adv \in Advantages :
             ResolveAttackRoll(b, ac, adv)
       \/ \E f \in SmallFormulas, critical \in BOOLEAN : RollDamage(f, critical)

Init ==
    /\ InitToken /\ InitRace /\ InitTurn /\ InitCombat /\ InitConditions
    /\ InitPresence /\ InitSync /\ InitDice

SpecToken == Init /\ [][NextToken]_vars
SpecRace == Init /\ [][NextRace]_vars
SpecTurn == Init /\ [][NextTurnQueue]_vars
SpecTurnRestart == Init /\ [][NextTurnRestart]_vars
SpecCombat == Init /\ [][NextCombat]_vars
SpecConditions == Init /\ [][NextConditions]_vars
SpecEffects == Init /\ [][NextEffects]_vars
SpecPresence == Init /\ [][NextPresence]_vars
SpecDetect == Init /\ [][NextDetect]_vars
SpecResolve == Init /\ [][NextResolve]_vars
SpecConsistency == Init /\ [][NextConsistency]_vars
SpecSessions == Init /\ [][NextSessions]_vars
SpecDice == Init /\ [][NextDice]_vars
SpecConnections == Init /\ [][NextConnections]_vars

(***************************************************************************)
(* Claims about the ReconnectionManager                                    *)
(***************************************************************************)

\* C1: once handle_reconnection(secret) has returned success, every later
\* validate_token(secret) and handle_reconnection(secret) call fails, whatever
\* calls happen in between.
C1_RedeemedTokenNeverValidAgain ==
    [][\A raw \in redeemed :
          (lastCall'.secret = raw /\ lastCall'.op \in {"validate", "handle"})
              => ~lastCall'.ok]_vars

\* a redeemed secret was presented to handle_reconnection again and refused
C1_Witness ==
    /\ lastCall.op = "handle"
    /\ lastCall.secret \in redeemed
    /\ ~lastCall.ok

\* C2: of two handle_reconnection calls in flight with the same secret, at
\* most one reports success.
C2_AtMostOneSuccess ==
    \A p, q \in Procs :
        (p # q /\ rpc[p] = "done" /\ rpc[q] = "done" /\ rsecret[p] = rsecret[q])
            => ~(rok[p] /\ rok[q])

(***************************************************************************)
(* Claims about the TurnManager                                            *)
(***************************************************************************)

\* the queue of a session whose rows all have distinct turn_order
QueueOf(s) == CHOOSE q \in get_turn_queue(turns, s) : TRUE

\* C3: once start_turn_queue has created a non-empty queue for a session,
\* exactly one Turn of the session is ACTIVE after every later advance_turn,
\* set_player_ready, record_action or skip_turn call.
C3_ExactlyOneActive ==
    \A s \in TurnSessions :
        phase[s] \in {"pure", "mixed"} => Cardinality(ActiveTurns(turns, s)) = 1

\* C4: in every reachable state, whatever calls were made (start_turn_queue
\* possibly more than once for a session), at most one Turn of a session is
\* ACTIVE.
C4_AtMostOneActive ==
    \A s \in TurnSessions : Cardinality(ActiveTurns(turns, s)) <= 1

\* C5: skip_turn called for the character that holds the ACTIVE Turn does
\* not fail; it leaves that Turn SKIPPED and returns the newly ACTIVE Turn,
\* the next one in turn order (wrapping to the first).
C5_SkipTurnAdvances ==
    (turnCall.op = "skip" /\ turnCall.found) =>
        /\ turnCall.ok
        /\ turns[turnCall.ret].status = "active"
        /\ LET q == QueueOf(turnCall.session) IN
              turnCall.ret = q[(IndexOf(q, turnCall.cur) % Len(q)) + 1]

\* C6: after start_turn_queue with N >= 1 characters and k successful
\* advance_turn calls with no other mutating call, the ACTIVE Turn is the one
\* at position k mod N and its round number is the starting round plus
\* floor(k / N).
C6_AdvanceRoundRobin ==
    \A s \in TurnSessions :
        phase[s] = "pure" =>
            LET q == QueueOf(s)
                N == Len(q)
                k == advances[s]
            IN /\ N >= 1
               /\ ActiveTurns(turns, s) = {q[(k % N) + 1]}
               /\ turns[q[(k % N) + 1]].turn_order = k % N
               /\ turns[q[(k % N) + 1]].round_number = DefaultRound + (k \div N)

\* a queue of two or more turns has wrapped around and advanced once more
C6_Witness ==
    \E s \in TurnSessions :
        /\ phase[s] = "pure"
        /\ Cardinality(SessionTurns(turns, s)) >= 2
        /\ advances[s] = Cardinality(SessionTurns(turns, s)) + 1
        /\ turnCall.op = "advance" /\ turnCall.ok

\* C7: every next_turn call terminates, also when every Combatant of the
\* encounter is at 0 hit points: a next_turn call always comes back.
C7_NextTurnTerminates ==
    combatCall.op = "next_turn" => combatCall.returned

\* C8: a next_turn call on an active encounter in which at most one Combatant
\* is alive appends a combat-ended entry to the log and discards the
\* encounter, so that get_combat returns nothing afterwards.
C8_NextTurnEndsCombat ==
    (combatCall.op = "next_turn" /\ combatCall.had /\ combatCall.aliveBefore <= 1)
        => /\ combatCall.returned
           /\ combatCall.ret # None
           /\ \E k \in 1..Len(combatCall.ret[1].combat_log) :
                 combatCall.ret[1].combat_log[k]
                     \in {"ended_victorious", "ended_all_defeated"}
           /\ combats[combatCall.session] = None

\* C9: whatever resolve_attack, apply_damage and apply_healing calls were
\* made, with whatever integer amounts, every Combatant has hit points
\* between 0 and its maximum (all combatants start in that range).
C9_HpWithinRange ==
    \A s \in SessionIds :
        combats[s] # None =>
            \A i \in 1..Len(combats[s][1].combatants) :
                LET cb == combats[s][1].combatants[i] IN
                0 <= cb.current_hp /\ cb.current_hp <= cb.max_hp

\* C10: after start_combat with N combatants, all alive, the N-th next_turn
\* call, with no damage applied since the start, returns the encounter at
\* turn index 0 with the round number one above the starting round.
C10_FullRoundReturnsToFirst ==
    \A s \in SessionIds :
        LET h == history[s] IN
        (/\ combatCall.op = "next_turn" /\ combatCall.session = s
         /\ h.size >= 1 /\ h.allAlive /\ h.clean /\ h.calls = h.size)
            => /\ combatCall.returned
               /\ combatCall.ret # None
               /\ combatCall.ret[1].current_turn_index = 0
               /\ combatCall.ret[1].round_number = StartRound + 1

\* a round of two living combatants has been played out without damage
C10_Witness ==
    \E s \in SessionIds :
        /\ combatCall.op = "next_turn" /\ combatCall.session = s
        /\ history[s].size >= 2 /\ history[s].allAlive /\ history[s].clean
        /\ history[s].calls = history[s].size
        /\ combats[s] # None

\* C11: when a next_turn call returns and the encounter is still active, the
\* turn index is within the combatant list, the combatant at the index is
\* alive, and the round number has grown by one for each wraparound the call
\* passed (one if the index did not move forward, none otherwise).
C11_CurrentCombatantAlive ==
    [][\A s \in SessionIds :
         (/\ combatCall'.op = "next_turn" /\ combatCall'.session = s
          /\ combatCall'.returned
          /\ combats[s] # None /\ combats'[s] # None)
            => LET before == combats[s][1]
                   after == combats'[s][1]
               IN /\ HasCurrent(after)
                  /\ is_alive(current_combatant(after))
                  /\ after.round_number = before.round_number +
                        (IF after.current_turn_index <= before.current_turn_index
                         THEN 1 ELSE 0)]_vars

\* a next_turn call has skipped a defeated combatant and passed a wraparound
\* in an encounter that goes on
C11_Witness ==
    \E s \in SessionIds :
        /\ combatCall.op = "next_turn" /\ combatCall.session = s
        /\ combatCall.returned /\ combats[s] # None
        /\ combats[s][1].round_number > StartRound
        /\ combats[s][1].current_turn_index > 0
        /\ ~is_alive(combats[s][1].combatants[combats[s][1].current_turn_index])

\* C12: a condition applied with a rounds duration R >= 1 on a character on
\* which its type was not active is active after each of the first R-1
\* advance_round calls, absent after the R-th, and the R-th call returns it
\* among the conditions expired this round.
C12_ExpiresAfterRRounds ==
    \A ch \in CondCharacters, ct \in ConditionTypes :
        LET a == applied[ch][ct]
            list == ConditionsOf(charConds, ch)
        IN a.on =>
            /\ a.calls < a.R => has_condition(list, ct)
            /\ a.calls >= a.R => ~has_condition(list, ct)
            /\ (/\ a.calls = a.R
                /\ condCall.op = "advance_round" /\ condCall.character = ch)
                  => \E k \in 1..Len(condCall.expired) :
                        condCall.expired[k].condition_type = ct

\* a condition applied for two rounds or more has just run out
C12_Witness ==
    \E ch \in CondCharacters, ct \in ConditionTypes :
        /\ applied[ch][ct].on /\ applied[ch][ct].R >= 2
        /\ applied[ch][ct].calls = applied[ch][ct].R
        /\ condCall.op = "advance_round"

\* C13: apply_condition for a type that is already active, where the active
\* condition or the new one is not rounds-based, adds a new entry to the
\* character's condition list.
C13_OtherwiseAddsEntry ==
    [][\A ch \in CondCharacters, ct \in ConditionTypes :
         LET list == ConditionsOf(charConds, ch)
             after == ConditionsOf(charConds', ch)
             existing == get_condition(list, ct)
         IN (/\ condCall'.op = "apply_condition"
             /\ condCall'.character = ch /\ condCall'.condition_type = ct
             /\ existing # {}
             /\ \/ \E i \in existing : list[i].duration_type # "rounds"
                \/ condCall'.condition[1].duration_type # "rounds")
                => Len(after) = Len(list) + 1]_vars

\* C14: apply_condition with a rounds duration for a type that is active with
\* a rounds duration leaves exactly one active condition of that type, whose
\* remaining rounds are the larger of the old remaining rounds and the new
\* duration value.
C14_KeepsLongerDuration ==
    [][\A ch \in CondCharacters, ct \in ConditionTypes :
         LET list == ConditionsOf(charConds, ch)
             after == ConditionsOf(charConds', ch)
             existing == get_condition(list, ct)
         IN (/\ condCall'.op = "apply_condition"
             /\ condCall'.character = ch /\ condCall'.condition_type = ct
             /\ condCall'.condition[1].duration_type = "rounds"
             /\ existing # {}
             /\ \A i \in existing : list[i].duration_type = "rounds")
                => /\ Cardinality({k \in ActivePositions(after) :
                                      after[k].condition_type = ct}) = 1
                   /\ \A i \in existing, k \in get_condition(after, ct) :
                         after[k].rounds_remaining =
                            Some(Max(list[i].rounds_remaining[1],
                                     condCall'.condition[1].duration_value))]_vars

\* a rounds-based condition was applied again with a shorter duration
C14_Witness ==
    /\ condCall.op = "apply_condition"
    /\ condCall.condition[1].duration_type = "rounds"
    /\ \E k \in get_condition(ConditionsOf(charConds, condCall.character),
                              condCall.condition_type) :
          LET c == ConditionsOf(charConds, condCall.character)[k] IN
          /\ c.duration_type = "rounds"
          /\ c.rounds_remaining[1] > condCall.condition[1].duration_value

\* the boolean effect flags of check_condition_effects
EffectFlags ==
    {"attack_advantage", "attack_disadvantage", "attacks_against_advantage",
     "attacks_against_disadvantage", "save_disadvantage", "auto_fail_str_saves",
     "auto_fail_dex_saves", "is_prone", "is_incapacitated"}

\* C15: each boolean effect flag check_condition_effects reports is true iff
\* it is true for at least one of the character's active conditions taken
\* alone, and apply_condition never turns a flag from true to false.
C15_EffectsAreUnion ==
    /\ [](\A ch \in CondCharacters :
            (/\ condCall.op = "check_condition_effects"
             /\ condCall.character = ch /\ condCall.effects # None)
               => LET active == active_conditions(ConditionsOf(charConds, ch)) IN
                  \A flag \in EffectFlags :
                     condCall.effects[1][flag] <=>
                        \E i \in 1..Len(active) : Effects(<<active[i]>>)[flag])
    /\ [][\A ch \in CondCharacters :
            (condCall'.op = "apply_condition" /\ condCall'.character = ch)
               => \A flag \in EffectFlags :
                     Effects(ConditionsOf(charConds, ch))[flag]
                        => Effects(ConditionsOf(charConds', ch))[flag]]_vars

\* the effects of a character with two active conditions were read
C15_Witness ==
    /\ condCall.op = "check_condition_effects"
    /\ condCall.effects # None
    /\ Len(condCall.effects[1].active_conditions) >= 2
    /\ condCall.effects[1].attack_disadvantage
    /\ condCall.effects[1].is_incapacitated

\* the status the heartbeat age alone gives
AgeStatus(age) ==
    IF age > offline_timeout THEN "offline"
    ELSE IF age > heartbeat_timeout THEN "away" ELSE "online"

\* the reads of the presence of a player
PresenceReads == {"get_player_status", "get_presence_summary"}

\* C16: for a row created by track_connection and never disconnected or
\* manually set, the status a read reports is the one its heartbeat age
\* gives: offline above the offline timeout, away above the heartbeat timeout,
\* online otherwise.
C16_StatusFollowsHeartbeatAge ==
    \A c \in AllConnections :
        (/\ presCall.op \in PresenceReads /\ presCall.conn = c
         /\ notes[c].pure)
            => presCall.status = AgeStatus(clock - presences[c][1].last_heartbeat)

\* online < away < offline
StatusRank(status) ==
    CASE status = "online" -> 0 [] status = "away" -> 1 [] OTHER -> 2

\* C17: between two reads of a row with no track_connection, update_heartbeat
\* or update_status in between, the status reported never moves back from
\* offline to away or online, nor from away to online.
C17_StatusMonotonicWithoutHeartbeat ==
    [][\A c \in AllConnections :
         (/\ presCall'.op \in PresenceReads /\ presCall'.conn = c
          /\ notes[c].seen # "")
            => StatusRank(notes[c].seen) <= StatusRank(presCall'.status)]_vars

\* a row that an earlier read found stale and put offline is read again
\* later, with no heartbeat in between
C17_Witness ==
    \E c \in AllConnections :
        /\ presCall.op \in PresenceReads /\ presCall.conn = c
        /\ presCall.status = "offline"
        /\ notes[c].pure
        /\ presences[c][1].disconnected_at # None
        /\ presences[c][1].disconnected_at[1] < clock
        /\ presences[c][1].last_heartbeat < presences[c][1].disconnected_at[1]

\* C18: after disconnect the row is offline and stays offline under reads and
\* update_heartbeat calls, whatever its heartbeat age, until track_connection
\* is called for it.
C18_DisconnectStaysOffline ==
    \A c \in AllConnections :
        notes[c].cut =>
            /\ presences[c] # None => presences[c][1].status = "offline"
            /\ (presCall.op \in PresenceReads /\ presCall.conn = c)
                  => presCall.status = "offline"

\* a disconnected row got a heartbeat and was read while its heartbeat is fresh
C18_Witness ==
    \E c \in AllConnections :
        /\ notes[c].cut /\ presences[c] # None
        /\ presCall.op \in PresenceReads /\ presCall.conn = c
        /\ presences[c][1].disconnected_at # None
        /\ presences[c][1].last_heartbeat > presences[c][1].disconnected_at[1]
        /\ clock - presences[c][1].last_heartbeat <= heartbeat_timeout

\* C19: each (player, session) pair has at most one token record whose
\* validity flag is set, and a secret that validate_token accepts is the one
\* created last for its pair: once a newer token exists for the pair, the
\* older secret fails validation.
C19_OneValidTokenPerPair ==
    /\ \A p \in PlayerIds, s \in SessionIds :
          Cardinality(ValidForPair(tokens, p, s)) <= 1
    /\ (lastCall.op = "validate" /\ lastCall.ok)
          => \A r, q \in tokens :
                (/\ r.token = Hash(lastCall.secret)
                 /\ q.player_id = r.player_id /\ q.session_id = r.session_id)
                   => q.token[2] <= lastCall.secret

\* the first of two tokens created for one pair has failed validation before
\* its expiry
C19_Witness ==
    \E r, q \in tokens :
        /\ q.player_id = r.player_id /\ q.session_id = r.session_id
        /\ r.token[2] < q.token[2]
        /\ lastCall.op = "validate" /\ lastCall.secret = r.token[2]
        /\ ~lastCall.ok
        /\ r.used_at = None /\ now <= r.expires_at

\* C20: validate_token and handle_reconnection fail for a token whose expiry
\* time is earlier than the current time, even if its validity flag is still
\* set, and the attempt clears the flag; the passing of time alone changes no
\* token.
C20_ExpiryCheckedAtValidation ==
    [][/\ \A raw \in Secrets :
            (/\ lastCall'.op \in {"validate", "handle"}
             /\ lastCall'.secret = raw
             /\ \E r \in ValidByHash(tokens, raw) : r.expires_at < now)
               => /\ ~lastCall'.ok
                  /\ ValidByHash(tokens', raw) = {}
                  /\ \E r \in tokens' : r.token = Hash(raw) /\ r.used_at = None
       /\ now' # now => tokens' = tokens]_vars

\* an unused token was found expired by a call and lost its validity flag
C20_Witness ==
    \E r \in tokens :
        /\ lastCall.op \in {"validate", "handle"}
        /\ r.token = Hash(lastCall.secret)
        /\ ~lastCall.ok
        /\ ~r.is_valid /\ r.used_at = None /\ r.expires_at < now
        /\ \A q \in tokens : q = r

\* C21: advance_turn on a session that has no ACTIVE Turn raises (ok is
\* FALSE) and leaves every row of the Turn table as it was: no status, round
\* number or timestamp changes.
C21_AdvanceWithoutActiveFails ==
    [][\A s \in SessionIds :
          (turnCall'.op = "advance" /\ turnCall'.session = s
             /\ ActiveTurns(turns, s) = {})
          => (~turnCall'.ok /\ turns' = turns)]_vars

\* an advance_turn call failed on a session that has Turns, none ACTIVE
C21_Witness ==
    /\ turnCall.op = "advance"
    /\ ~turnCall.ok
    /\ SessionTurns(turns, turnCall.session) # {}
    /\ ActiveTurns(turns, turnCall.session) = {}

\* C22: set_player_ready only moves a Turn of the given character and session
\* between WAITING and READY. Whatever the arguments, the call leaves the
\* ACTIVE Turns, every round number, every Turn of another character or
\* session and every ACTIVE, COMPLETED or SKIPPED Turn as they were, also when
\* check_all_ready reports that all are ready afterwards.
C22_ReadyOnlyTogglesWaitingReady ==
    \A s \in SessionIds, c \in CharacterIds, ready \in BOOLEAN :
      \A out \in set_player_ready(turns, s, c, ready) :
        /\ Len(out) = Len(turns)
        /\ \A o \in SessionIds : ActiveTurns(out, o) = ActiveTurns(turns, o)
        /\ check_all_ready(out, s).all_ready
              => ActiveTurns(out, s) = ActiveTurns(turns, s)
        /\ \A i \in 1..Len(turns) :
              /\ out[i].round_number = turns[i].round_number
              /\ (turns[i].character_id # c \/ turns[i].session_id # s)
                    => out[i] = turns[i]
              /\ turns[i].status \in {"active", "completed", "skipped"}
                    => out[i] = turns[i]
              /\ out[i] # turns[i]
                    => /\ {turns[i].status, out[i].status} = {"waiting", "ready"}
                       /\ out[i] = [turns[i] EXCEPT !.status = out[i].status]

\* set_player_ready has made a Turn READY, check_all_ready reports all ready
\* and the session still has its ACTIVE Turn
C22_Witness ==
    \E s \in SessionIds :
       /\ \E i \in SessionTurns(turns, s) : turns[i].status = "ready"
       /\ check_all_ready(turns, s).all_ready
       /\ ActiveTurns(turns, s) # {}

(***************************************************************************)
(* Claims about the SyncManager                                            *)
(***************************************************************************)

\* the conflicts of one type among those returned
OfType(conflicts, type) ==
    SelectSeq(conflicts, LAMBDA c : c.conflict_type = type)

\* C23: whenever a batch holds two actions of the same character whose
\* timestamps are less than one second apart, detect_conflicts returns a
\* simultaneous-action conflict for that character, however many actions of
\* the character the batch holds and in whatever order.
C23_SimultaneousDetected ==
    syncCall.op = "detect" =>
      \A i, j \in 1..Len(syncCall.batch) :
         (/\ i < j
          /\ syncCall.batch[i].character_id = syncCall.batch[j].character_id
          /\ TimeDiff(syncCall.batch[i].timestamp, syncCall.batch[j].timestamp)
                < TicksPerSecond)
         => \E k \in 1..Len(syncCall.conflicts) :
               /\ syncCall.conflicts[k].conflict_type = "simultaneous_action"
               /\ syncCall.conflicts[k].involved_character_ids
                     = <<syncCall.batch[i].character_id>>

\* C24: detect_conflicts returns a resource conflict exactly when two
\* different characters name the same target in the batch, and every
\* resource conflict names two different characters.
C24_ResourceConflictIffTwoCharacters ==
    syncCall.op = "detect" =>
      LET resource == OfType(syncCall.conflicts, "resource_conflict") IN
      /\ (resource # <<>>)
            <=> \E i, j \in 1..Len(syncCall.batch) :
                   /\ i < j
                   /\ syncCall.batch[i].target # ""
                   /\ syncCall.batch[i].target = syncCall.batch[j].target
                   /\ syncCall.batch[i].character_id
                         # syncCall.batch[j].character_id
      /\ \A k \in 1..Len(resource) :
            resource[k].involved_character_ids[1]
              # resource[k].involved_character_ids[2]

\* C25: detect_conflicts returns a turn-order violation for an action of the
\* batch exactly when the session has an ACTIVE Turn and the action's
\* character is not the character of that Turn; each one names the acting
\* character and then the character of the ACTIVE Turn. Without an ACTIVE
\* Turn there is none.
C25_TurnOrderViolationIffNotHolder ==
    syncCall.op = "detect" =>
      LET violations == OfType(syncCall.conflicts, "turn_order_violation") IN
      IF ActiveTurns(turns, syncCall.session) = {}
      THEN violations = <<>>
      ELSE \E h \in ActiveTurns(turns, syncCall.session) :
             LET holder == turns[h].character_id
                 offenders == SelectSeq(syncCall.batch,
                                        LAMBDA a : a.character_id # holder)
             IN /\ Len(violations) = Len(offenders)
                /\ \A k \in 1..Len(violations) :
                      violations[k].involved_character_ids
                        = <<offenders[k].character_id, holder>>

\* a batch with an action of the character of the ACTIVE Turn and an action
\* of another character, for which a violation was returned
C25_Witness ==
    /\ syncCall.op = "detect"
    /\ \E h \in ActiveTurns(turns, syncCall.session) :
          /\ \E i \in 1..Len(syncCall.batch) :
                syncCall.batch[i].character_id = turns[h].character_id
          /\ \E i \in 1..Len(syncCall.batch) :
                syncCall.batch[i].character_id # turns[h].character_id
    /\ OfType(syncCall.conflicts, "turn_order_violation") # <<>>

\* C26: resolve_conflict on an active conflict id returns True, records the
\* strategy and the winner on the conflict and removes it, and only it, from
\* active_conflicts; on an id that is not active, as the same id is when
\* resolved a second time, it returns False and changes nothing. With
\* first_come_first_serve the winner is the first character listed.
C26_ResolveRemovesConflict ==
    [][\A id \in ResolveIds :
          (syncCall'.op = "resolve" /\ syncCall'.id = id)
          => /\ IF id \in DOMAIN active_conflicts
                THEN /\ syncCall'.ok
                     /\ syncCall'.conflict # None
                     /\ syncCall'.conflict[1] =
                           [active_conflicts[id] EXCEPT
                              !.resolution_strategy = Some(syncCall'.strategy),
                              !.resolved = TRUE,
                              !.winner_character_id =
                                  syncCall'.conflict[1].winner_character_id]
                     /\ DOMAIN active_conflicts'
                           = DOMAIN active_conflicts \ {id}
                     /\ \A k \in DOMAIN active_conflicts' :
                           active_conflicts'[k] = active_conflicts[k]
                     /\ syncCall'.strategy = "first_come_first_serve"
                           => syncCall'.conflict[1].winner_character_id
                                = Some(active_conflicts[id]
                                          .involved_character_ids[1])
                ELSE /\ ~syncCall'.ok
                     /\ active_conflicts' = active_conflicts
                     /\ turns' = turns
             /\ (syncCall.op = "resolve" /\ syncCall.ok /\ syncCall.id = id)
                   => (~syncCall'.ok /\ active_conflicts' = active_conflicts)]_vars

\* a conflict between two characters was resolved first come first served
\* while another conflict stayed active
C26_Witness ==
    /\ syncCall.op = "resolve"
    /\ syncCall.ok
    /\ syncCall.strategy = "first_come_first_serve"
    /\ Len(syncCall.conflict[1].involved_character_ids) = 2
    /\ syncCall.conflict[1].winner_character_id
          = Some(syncCall.conflict[1].involved_character_ids[1])
    /\ active_conflicts # <<>>

\* C27: resolve_conflict with initiative_order records as winner an involved
\* character whose Turn has the highest initiative among the involved
\* characters that have a Turn, whatever the initiative values are.
C27_InitiativeWinnerIsHighest ==
    (syncCall.op = "resolve" /\ syncCall.ok
       /\ syncCall.strategy = "initiative_order")
    => LET conflict == syncCall.conflict[1]
           involved == {conflict.involved_character_ids[i]
                          : i \in 1..Len(conflict.involved_character_ids)}
           queued == {c \in involved :
                        CharacterTurns(turns, conflict.session_id, c) # {}}
       IN queued # {}
          => \E w \in queued :
                /\ conflict.winner_character_id = Some(w)
                /\ \A c \in queued :
                      \A i \in CharacterTurns(turns, conflict.session_id, c) :
                        \E j \in CharacterTurns(turns, conflict.session_id, w) :
                           turns[j].initiative >= turns[i].initiative

\* C28: check_state_consistency returns consistent, with an empty list,
\* exactly when the client's current-turn character and round number are
\* those of the server's ACTIVE Turn (none when there is no ACTIVE Turn) and
\* every listed character's HP is the server's; otherwise the list holds one
\* entry for each of these that differs.
C28_ConsistentIffViewsAgree ==
    syncCall.op = "check" =>
      LET client == syncCall.client
          current == syncCall.current
          turnAgrees == client.turn =
                          (IF current = None THEN None
                           ELSE Some(turns[current[1]].character_id))
          roundAgrees == client.round =
                           (IF current = None THEN None
                            ELSE Some(turns[current[1]].round_number))
          hpDiffer == {c \in DOMAIN client.characters \cap DbCharacters :
                         client.characters[c] # char_current_hp(c)}
      IN /\ syncCall.consistent <=> (turnAgrees /\ roundAgrees /\ hpDiffer = {})
         /\ syncCall.consistent <=> (syncCall.discrepancies = <<>>)
         /\ Len(syncCall.discrepancies)
               = (IF turnAgrees THEN 0 ELSE 1) + (IF roundAgrees THEN 0 ELSE 1)
                   + Cardinality(hpDiffer)

\* C30: end_combat on a session without an encounter returns False and
\* changes no encounter; after end_combat the session has no encounter and
\* the encounters of the other sessions are as before; a second end_combat
\* right after the first leaves the state the first one left.
C30_EndCombatIdempotent ==
    [][\A s \in SessionIds :
          (combatCall'.op = "end_combat" /\ combatCall'.session = s)
          => /\ combatCall'.had <=> (combats[s] # None)
             /\ combats[s] = None => combats' = combats
             /\ combats'[s] = None
             /\ \A o \in SessionIds \ {s} : combats'[o] = combats[o]
             /\ end_combat(combats', s).combats = combats'
             /\ ~end_combat(combats', s).ret
             /\ (combatCall.op = "end_combat" /\ combatCall.session = s)
                   => (~combatCall'.had /\ combats' = combats)]_vars

\* end_combat has discarded an encounter
C30_Witness ==
    /\ combatCall.op = "end_combat"
    /\ combatCall.had
    /\ combats[combatCall.session] = None

\* the Turns of session o, by row id
TurnsOf(tbl, o) ==
    [i \in {j \in 1..Len(tbl) : tbl[j].session_id = o} |-> tbl[i]]

\* C29: a CombatManager or TurnManager call made for one session
\* (start_combat, next_turn, resolve_attack, apply_damage, apply_healing,
\* end_combat, start_turn_queue, advance_turn, set_player_ready, skip_turn)
\* leaves the encounter and the Turns of every other session as they were, in
\* whatever order the calls for the sessions are made.
C29_SessionsIndependent ==
    [][\A s \in SessionIds :
          SessionStep(s)
          => \A o \in SessionIds \ {s} :
                /\ combats'[o] = combats[o]
                /\ TurnsOf(turns', o) = TurnsOf(turns, o)]_vars

\* both sessions have an encounter, one of them damaged
C29_Witness ==
    /\ \A s \in SessionIds : combats[s] # None
    /\ \E s \in SessionIds : combats[s][1].combat_log # <<>>
    /\ \E s \in SessionIds :
          \E i \in 1..Len(combats[s][1].combatants) :
             combats[s][1].combatants[i].current_hp
               # char_current_hp(combats[s][1].combatants[i].character_id)

(***************************************************************************)
(* Claims about the dice functions                                         *)
(***************************************************************************)

\* the d20 kept by the call of the last step, computed from the dice rolled
KeptOfCall ==
    LET rolls == diceCall.result.rolls IN
    CASE diceCall.advantage = "advantage" -> Max(rolls[1], rolls[2])
      [] diceCall.advantage = "disadvantage" -> Min(rolls[1], rolls[2])
      [] OTHER -> rolls[1]

\* C31: resolve_check and resolve_attack succeed when the kept d20 shows 20
\* and fail when it shows 1, whatever the modifier and the DC or AC; for any
\* other kept value they succeed iff kept value + modifier >= DC or AC. One
\* d20 is rolled without advantage; two are rolled with advantage or
\* disadvantage, and the kept value is the higher or the lower of them.
C31_NaturalRollsDecide ==
    diceCall.op \in {"resolve_check", "resolve_attack"} =>
      LET r == diceCall.result IN
      /\ Len(r.rolls) = (IF diceCall.advantage = "normal" THEN 1 ELSE 2)
      /\ r.roll = KeptOfCall
      /\ r.roll = 20 => r.success
      /\ r.roll = 1 => ~r.success
      /\ r.roll \notin {1, 20} => (r.success <=> r.roll + r.modifier >= diceCall.dc)

\* a natural 20 kept from two different dice succeeds against a DC that the
\* total does not reach
C31_Witness ==
    /\ diceCall.op = "resolve_check"
    /\ diceCall.advantage = "advantage"
    /\ diceCall.result.rolls[1] < diceCall.result.rolls[2]
    /\ diceCall.result.roll = 20
    /\ diceCall.result.roll + diceCall.result.modifier < diceCall.dc
    /\ diceCall.result.success

\* C32: for every formula NdM+K that passes the validation, every advantage
\* mode and every outcome of the dice, each die result returned by roll_dice
\* lies in 1..M and the total lies in N + K .. N*M + K.
C32_RollWithinRange ==
    (diceCall.op = "roll_dice" /\ ~diceCall.raised) =>
      LET f == diceCall.formula
          r == diceCall.result
      IN /\ FormulaValid(f)
         /\ \A i \in 1..Len(r.rolls) : 1 <= r.rolls[i] /\ r.rolls[i] <= f.sides
         /\ f.count + f.modifier <= r.total
         /\ r.total <= f.count * f.sides + f.modifier

\* a d20 rolled with disadvantage and a negative modifier: two dice are
\* returned and the total is the lower one plus the modifier
C32_Witness ==
    /\ diceCall.op = "roll_dice"
    /\ ~diceCall.raised
    /\ diceCall.advantage = "disadvantage"
    /\ diceCall.formula.modifier < 0
    /\ Len(diceCall.result.rolls) = 2
    /\ diceCall.result.rolls[1] > diceCall.result.rolls[2]
    /\ diceCall.result.total = diceCall.result.rolls[2] + diceCall.formula.modifier

\* C33: for every formula NdM+K that passes the validation, roll_damage
\* rolls 2N dice of size M on a critical hit and N dice otherwise, and adds K
\* once; the critical total lies in 2N + K .. 2N*M + K.
C33_CriticalDoublesDice ==
    (diceCall.op = "roll_damage" /\ ~diceCall.raised) =>
      LET f == diceCall.formula
          r == diceCall.result
      IN /\ Len(r.rolls) = (IF diceCall.critical THEN 2 * f.count ELSE f.count)
         /\ \A i \in 1..Len(r.rolls) : r.rolls[i] \in 1..f.sides
         /\ r.total = Sum(r.rolls) + f.modifier
         /\ diceCall.critical =>
               /\ 2 * f.count + f.modifier <= r.total
               /\ r.total <= 2 * f.count * f.sides + f.modifier

\* a critical roll of a formula with two dice and a modifier: four dice
C33_Witness ==
    /\ diceCall.op = "roll_damage"
    /\ diceCall.critical
    /\ diceCall.formula.count = 2
    /\ diceCall.formula.modifier # 0
    /\ Len(diceCall.result.rolls) = 4
    /\ diceCall.result.total = 4 * diceCall.formula.sides + diceCall.formula.modifier

(***************************************************************************)
(* Claims about conflicts kept by the SyncManager                          *)
(***************************************************************************)

\* C34: a detect_conflicts call stores every conflict it returns under that
\* conflict's id and leaves every conflict that was active before the call
\* in the dict as it was; only resolve_conflict for its id takes a conflict
\* out, so the unresolved conflicts are all kept under distinct ids.
C34_ConflictsStayUntilResolved ==
    [][/\ syncCall'.op = "detect"
          => /\ \A i \in 1..Len(syncCall'.conflicts) :
                  LET c == syncCall'.conflicts[i] IN
                  /\ c.conflict_id \in DOMAIN active_conflicts'
                  /\ active_conflicts'[c.conflict_id] = c
             /\ \A id \in DOMAIN active_conflicts :
                  /\ id \in DOMAIN active_conflicts'
                  /\ active_conflicts'[id] = active_conflicts[id]
       /\ syncCall'.op = "resolve"
          => \A id \in DOMAIN active_conflicts \ {syncCall'.id} :
                /\ id \in DOMAIN active_conflicts'
                /\ active_conflicts'[id] = active_conflicts[id]]_vars

(***************************************************************************)
(* Claims about failed reconnections                                       *)
(***************************************************************************)

\* C35: a handle_reconnection call that reports failure leaves the used_at
\* of every token as it was and leaves every token that was valid and not
\* expired valid: only a call that reports success marks a token used.
C35_FailedReconnectionKeepsToken ==
    [][(lastCall'.op = "handle" /\ ~lastCall'.ok)
          => \A r \in tokens :
                \E q \in tokens' :
                   /\ q.token = r.token
                   /\ q.used_at = r.used_at
                   /\ (r.is_valid /\ ~IsExpired(r, now)) => q.is_valid]_vars

(***************************************************************************)
(* Claims about a player with several connections                          *)
(***************************************************************************)

\* the connections of the player whose row is online with a heartbeat
\* younger than the heartbeat timeout
LiveConnections ==
    {c \in PlayerRows(presences) :
        /\ presences[c][1].status = "online"
        /\ clock - presences[c][1].last_heartbeat < heartbeat_timeout}

\* C36: when at least one connection of the player has a row that is online
\* with a heartbeat younger than the heartbeat timeout, get_player_status
\* and get_presence_summary report the player online, whatever the rows of
\* the player's other connections hold.
C36_OnlineWhileAnyConnectionLive ==
    (presCall.op \in {"get_player_status", "get_presence_summary"}
       /\ LiveConnections # {})
    => /\ presCall.status = "online"
       /\ presCall.counts = StatusCounts("online")

(***************************************************************************)
(* Claims about attacks with a damage formula that does not parse          *)
(***************************************************************************)

\* C37: CombatManager.resolve_attack called for two combatants of the
\* encounter with a damage formula that parse_dice_formula rejects raises
\* the ValueError whatever the attack roll shows, and leaves the encounter as
\* it was: every HP, the turn index, the round number, and no log entry
\* appended.
C37_InvalidFormulaAlwaysFails ==
    [][\A s \in CombatSessions, attacker_id \in AttackerIds,
          target_id \in CharacterRows, bonus \in AttackBonuses,
          adv \in AttackAdvantages, f \in DamageFormulas :
          (/\ ~FormulaValid(f)
           /\ combats[s] # None
           /\ FindCombatant(combats[s][1], attacker_id) # {}
           /\ FindCombatant(combats[s][1], target_id) # {}
           /\ ResolveAttack(s, attacker_id, target_id, bonus, f, adv))
          => combats'[s] = Some(NewCall(combats[s][1]))]_vars

(***************************************************************************)
(* Claims about the conditions a character holds                           *)
(***************************************************************************)

\* the conditions of the type in the list that have not expired
ActiveOfType(list, ct) ==
    {i \in ActivePositions(list) : list[i].condition_type = ct}

\* C38: after any sequence of apply_condition, remove_condition,
\* advance_round and clear_all_conditions calls a character holds at most
\* one condition of each type that has not expired, and after a
\* remove_condition call that returned True the character holds no condition
\* of that type that has not expired.
C38_OneActiveConditionPerType ==
    /\ \A ch \in CondCharacters, ct \in ConditionTypes :
          Cardinality(ActiveOfType(ConditionsOf(charConds, ch), ct)) <= 1
    /\ (condCall.op = "remove_condition" /\ condCall.condition # None)
          => ~has_condition(ConditionsOf(charConds, condCall.character),
                            condCall.condition_type)

\* remove_condition took the active condition of a type out of a list that
\* still holds an expired condition of that type
C38_Witness ==
    /\ condCall.op = "remove_condition"
    /\ condCall.condition # None
    /\ ~is_expired(condCall.condition[1])
    /\ LET list == ConditionsOf(charConds, condCall.character) IN
          \E i \in 1..Len(list) :
             /\ list[i].condition_type = condCall.condition_type
             /\ is_expired(list[i])

(***************************************************************************)
(* Claims about the round number of a turn queue                           *)
(***************************************************************************)

\* C39: in a turn queue created by a single start_turn_queue call, after
\* every advance_turn, set_player_ready, record_action, skip_turn and
\* end_turn_queue call all Turns of the session carry the same round number,
\* and no Turn's round number is lower than before the call.
C39_OneRoundNumberNeverDecreasing ==
    [][\A s \in TurnSessions :
          /\ \A i, j \in SessionTurns(turns', s) :
                turns'[i].round_number = turns'[j].round_number
          /\ \A i \in SessionTurns(turns, s) :
                /\ i \in SessionTurns(turns', s)
                /\ turns'[i].round_number >= turns[i].round_number]_vars

\* a queue of two or more Turns has wrapped around: every Turn is in the
\* round after the starting one, one of them ACTIVE and another reset
C39_Witness ==
    \E s \in TurnSessions :
        /\ Cardinality(SessionTurns(turns, s)) >= 2
        /\ \A i \in SessionTurns(turns, s) : turns[i].round_number = DefaultRound + 1
        /\ \E i \in SessionTurns(turns, s) : turns[i].status = "waiting"
        /\ turnCall.op = "advance" /\ turnCall.ok

(***************************************************************************)
(* Claims about resynchronization                                          *)
(***************************************************************************)

\* C40: force_sync changes no Turn, no TurnAction and no conflict, and lists
\* every Turn of the session once, in ascending turn order; a client view
\* that takes the current-turn character and round from the state force_sync
\* returned and lists no character HP is reported consistent, with no
\* discrepancy, by a check_state_consistency call for the session made with
\* no other call in between, also when the session has no ACTIVE Turn.
C40_SyncedViewIsConsistent ==
    [][/\ syncCall'.op = "force_sync"
          => /\ turns' = turns /\ actions' = actions
             /\ active_conflicts' = active_conflicts
             /\ LET q == syncCall'.state.turn_queue IN
                   /\ Len(q) = Cardinality(SessionTurns(turns, syncCall'.session))
                   /\ \A i \in SessionTurns(turns, syncCall'.session) :
                         \E k \in 1..Len(q) : q[k] = QueueEntry(turns[i])
                   /\ \A k \in 1..Len(q) :
                         \A m \in k..Len(q) : q[k].turn_order <= q[m].turn_order
       /\ (syncCall'.op = "check" /\ syncCall'.synced)
          => /\ syncCall.op = "force_sync"
             /\ turns' = turns
             /\ syncCall'.consistent
             /\ syncCall'.discrepancies = <<>>]_vars

\* a view taken from force_sync in the second round of a queue of two Turns
\* was checked and found consistent
C40_Witness ==
    /\ syncCall.op = "check"
    /\ syncCall.synced
    /\ syncCall.consistent
    /\ syncCall.client.turn # None
    /\ syncCall.client.round = Some(DefaultRound + 1)
    /\ Cardinality(SessionTurns(turns, syncCall.session)) = 2

====
